---------------------------- MODULE Spec2Model ----------------------------
(***************************************************************************)
(* LiteCal: the event preview of HomeScreen (src/app/(tabs)/index.tsx) and *)
(* the calendar document it generates, with EventPreview's consumers       *)
(* (src/components/EventPreview.tsx).                                      *)
(*                                                                         *)
(* Text is modelled as JavaScript models it: a string is a sequence of     *)
(* UTF-16 code units (naturals), so "A" is <<65>>.  A Date is its time     *)
(* value; the local time zone is a fixed offset from UTC (no daylight      *)
(* saving transitions), held in the platform record.                       *)
(***************************************************************************)
EXTENDS Integers, Sequences, FiniteSets, TLC

(***************************************************************************)
(* String literals of the source.                                          *)
(***************************************************************************)
BEGIN_VCALENDAR == <<66, 69, 71, 73, 78, 58, 86, 67, 65, 76, 69, 78, 68, 65, 82>>  \* "BEGIN:VCALENDAR"
VERSION_LINE == <<86, 69, 82, 83, 73, 79, 78, 58, 50, 46, 48>>  \* "VERSION:2.0"
PRODID_LINE == <<80, 82, 79, 68, 73, 68, 58, 45, 47, 47, 76, 105, 116, 101, 67, 97, 108, 47, 47, 69, 78>>  \* "PRODID:-//LiteCal//EN"
CALSCALE_LINE == <<67, 65, 76, 83, 67, 65, 76, 69, 58, 71, 82, 69, 71, 79, 82, 73, 65, 78>>  \* "CALSCALE:GREGORIAN"
METHOD_LINE == <<77, 69, 84, 72, 79, 68, 58, 80, 85, 66, 76, 73, 83, 72>>  \* "METHOD:PUBLISH"
BEGIN_VEVENT == <<66, 69, 71, 73, 78, 58, 86, 69, 86, 69, 78, 84>>  \* "BEGIN:VEVENT"
END_VEVENT == <<69, 78, 68, 58, 86, 69, 86, 69, 78, 84>>  \* "END:VEVENT"
END_VCALENDAR == <<69, 78, 68, 58, 86, 67, 65, 76, 69, 78, 68, 65, 82>>  \* "END:VCALENDAR"
UID_PREFIX == <<85, 73, 68, 58, 101, 118, 101, 110, 116, 45>>  \* "UID:event-"
UID_SUFFIX == <<64, 108, 105, 116, 101, 99, 97, 108, 46, 97, 112, 112>>  \* "@litecal.app"
DTSTAMP_PREFIX == <<68, 84, 83, 84, 65, 77, 80, 58>>  \* "DTSTAMP:"
DTSTART_PREFIX == <<68, 84, 83, 84, 65, 82, 84, 58>>  \* "DTSTART:"
DTEND_PREFIX == <<68, 84, 69, 78, 68, 58>>  \* "DTEND:"
SUMMARY_PREFIX == <<83, 85, 77, 77, 65, 82, 89, 58>>  \* "SUMMARY:"
LOCATION_PREFIX == <<76, 79, 67, 65, 84, 73, 79, 78, 58>>  \* "LOCATION:"
DESCRIPTION_PREFIX == <<68, 69, 83, 67, 82, 73, 80, 84, 73, 79, 78, 58>>  \* "DESCRIPTION:"
CALENDAR_EVENT == <<67, 97, 108, 101, 110, 100, 97, 114, 32, 69, 118, 101, 110, 116>>  \* "Calendar Event"
NONE_WORD == <<78, 111, 110, 101>>  \* "None"
NOT_SPECIFIED == <<78, 111, 116, 32, 115, 112, 101, 99, 105, 102, 105, 101, 100>>  \* "Not specified"
CRLF == <<13, 10>>  \* "\r\n"
base64chars == <<65, 66, 67, 68, 69, 70, 71, 72, 73, 74, 75, 76, 77, 78, 79, 80, 81, 82, 83, 84, 85, 86, 87, 88, 89, 90, 97, 98, 99, 100, 101, 102, 103, 104, 105, 106, 107, 108, 109, 110, 111, 112, 113, 114, 115, 116, 117, 118, 119, 120, 121, 122, 48, 49, 50, 51, 52, 53, 54, 55, 56, 57, 43, 47>>  \* "A-Za-z0-9+/"
FALLBACK_ICS == <<66, 69, 71, 73, 78, 58, 86, 67, 65, 76, 69, 78, 68, 65, 82, 13, 10, 86, 69, 82, 83, 73, 79, 78, 58, 50, 46, 48, 13, 10, 66, 69, 71, 73, 78, 58, 86, 69, 86, 69, 78, 84, 13, 10, 83, 85, 77, 77, 65, 82, 89, 58, 67, 97, 108, 101, 110, 100, 97, 114, 32, 69, 118, 101, 110, 116, 13, 10, 69, 78, 68, 58, 86, 69, 86, 69, 78, 84, 13, 10, 69, 78, 68, 58, 86, 67, 65, 76, 69, 78, 68, 65, 82>>  \* "BEGIN:VCALENDAR\r\nVERSION:2.0\r\nBEGIN:VEVENT\r\nSUMMARY:Calendar Event\r\nEND:VEVENT\r\nEND:VCALENDAR"

(***************************************************************************)
(* JavaScript values: a field of eventData is undefined, a string or a     *)
(* number (the API's JSON is untyped: eventData is declared `any`).        *)
(***************************************************************************)
Undefined == [t |-> "undefined", v |-> <<>>]
Str(s) == [t |-> "string", v |-> s]
Num(n) == [t |-> "number", v |-> <<n>>]

\* ToBoolean: undefined, null, "" and 0 are falsy, an object is truthy.
Truthy(x) ==
  CASE x.t = "string" -> x.v # <<>>
    [] x.t = "number" -> x.v # <<0>>
    [] x.t = "object" -> TRUE
    [] OTHER -> FALSE

\* A JavaScript number that may be NaN.
NaN == [nan |-> TRUE, n |-> 0]
Int32(n) == [nan |-> FALSE, n |-> n]

(***************************************************************************)
(* String.prototype.split with a one-character separator, and parseInt     *)
(* with radix 10: leading white space, an optional sign, then the longest  *)
(* prefix of decimal digits; NaN when there is no digit.                   *)
(***************************************************************************)
IndexOf(s, ch) ==
  IF \E i \in 1..Len(s) : s[i] = ch
  THEN CHOOSE i \in 1..Len(s) : s[i] = ch /\ \A j \in 1..(i - 1) : s[j] # ch
  ELSE 0

RECURSIVE split(_, _)
split(s, ch) ==
  LET i == IndexOf(s, ch)
  IN  IF i = 0 THEN <<s>>
      ELSE <<SubSeq(s, 1, i - 1)>> \o split(SubSeq(s, i + 1, Len(s)), ch)

IsWhiteSpace(c) == c \in {9, 10, 11, 12, 13, 32}
IsDigit(c) == c \in 48..57

RECURSIVE SkipWhiteSpace(_)
SkipWhiteSpace(s) ==
  IF s # <<>> /\ IsWhiteSpace(Head(s)) THEN SkipWhiteSpace(Tail(s)) ELSE s

RECURSIVE DigitsValue(_, _)
DigitsValue(s, acc) ==
  IF s # <<>> /\ IsDigit(Head(s))
  THEN DigitsValue(Tail(s), acc * 10 + (Head(s) - 48))
  ELSE acc

parseInt(s) ==
  LET body == SkipWhiteSpace(s)
      neg == body # <<>> /\ Head(body) = 45                 \* '-'
      signed == body # <<>> /\ Head(body) \in {43, 45}      \* '+' or '-'
      digits == IF signed THEN Tail(body) ELSE body
  IN  IF digits = <<>> \/ ~IsDigit(Head(digits)) THEN NaN
      ELSE Int32(IF neg THEN 0 - DigitsValue(digits, 0) ELSE DigitsValue(digits, 0))

\* value.split(sep).map(n => parseInt(n, 10))
ParseParts(s, ch) ==
  LET parts == split(s, ch) IN [i \in 1..Len(parts) |-> parseInt(parts[i])]

\* parts[k] as a number: an index past the end is undefined, which is NaN
\* in arithmetic and as an argument of setFullYear / setHours.
Part(parts, k) == IF k <= Len(parts) THEN parts[k] ELSE NaN

\* Number.prototype.toString for an integer, and padStart(2, '0').
RECURSIVE NatToString(_)
NatToString(n) ==
  IF n < 10 THEN <<48 + n>> ELSE Append(NatToString(n \div 10), 48 + (n % 10))

NumberToString(n) == IF n < 0 THEN <<45>> \o NatToString(0 - n) ELSE NatToString(n)

padStart2(s) == IF Len(s) < 2 THEN <<48>> \o s ELSE s

(***************************************************************************)
(* Date.  A Date is [nan, t, ms]: t the whole minutes of its time value    *)
(* (UTC, since 1970-01-01T00:00Z) and ms the milliseconds within that      *)
(* minute; nan marks an Invalid Date.  The getters and setters the source  *)
(* uses work on local time: LocalTime(t) = t + tz, tz the zone's offset in *)
(* minutes (ECMA-262 21.4.1).                                              *)
(***************************************************************************)
InvalidDate == [nan |-> TRUE, t |-> 0, ms |-> 0]
DateOf(t, ms) == [nan |-> FALSE, t |-> t, ms |-> ms]

\* Days since 1970-01-01 of the civil date (y, m, d), m in 1..12, any d.
DaysFromCivil(y, m, d) ==
  LET yy == IF m <= 2 THEN y - 1 ELSE y
      era == yy \div 400
      yoe == yy - era * 400
      mp == IF m > 2 THEN m - 3 ELSE m + 9
      doy == (153 * mp + 2) \div 5 + d - 1
      doe == yoe * 365 + yoe \div 4 - yoe \div 100 + doy
  IN  era * 146097 + doe - 719468

\* The civil date [y, m, d] of a day number.
CivilFromDays(z) ==
  LET zz == z + 719468
      era == zz \div 146097
      doe == zz - era * 146097
      yoe == (doe - doe \div 1460 + doe \div 36524 - doe \div 146096) \div 365
      doy == doe - (365 * yoe + yoe \div 4 - yoe \div 100)
      mp == (5 * doy + 2) \div 153
      d == doy - (153 * mp + 2) \div 5 + 1
      m == IF mp < 10 THEN mp + 3 ELSE mp - 9
      Civil(year, month, day) == [y |-> IF month <= 2 THEN year + 1 ELSE year,
                                  m |-> month, d |-> day]
  IN  Civil(yoe + era * 400, m, d)

\* MakeDay(year, month, date) with a 0-based month: months outside 0..11
\* carry into the year, and the date counts on from the first of the month.
MakeDay(year, month, date) ==
  DaysFromCivil(year + month \div 12, (month % 12) + 1, 1) + date - 1

\* new Date(): the current instant.
NewDate(now) == DateOf(now.min, now.ms)

\* date.setFullYear(y, m, d): the time within the local day is kept.
setFullYear(date, tz, y, m, d) ==
  IF y.nan \/ m.nan \/ d.nan THEN InvalidDate
  ELSE LET local == (IF date.nan THEN 0 ELSE date.t + tz)
           within == local % 1440
       IN  DateOf(MakeDay(y.n, m.n, d.n) * 1440 + within - tz,
                  IF date.nan THEN 0 ELSE date.ms)

\* setHours(h, min) with two arguments: the seconds and milliseconds of the
\* Date are kept.
setHoursKeepingSeconds(date, tz, h, mi) ==
  IF date.nan \/ h.nan \/ mi.nan THEN InvalidDate
  ELSE LET day == (date.t + tz) \div 1440
       IN  DateOf(day * 1440 + h.n * 60 + mi.n - tz, date.ms)

\* date.setHours(h, min, 0, 0): the local day is kept, seconds and ms zeroed.
setHours(date, tz, h, mi) ==
  IF date.nan \/ h.nan \/ mi.nan THEN InvalidDate
  ELSE LET day == (date.t + tz) \div 1440
       IN  DateOf(day * 1440 + h.n * 60 + mi.n - tz, 0)

\* An end one minute after the start in place of one hour after it.
PlusOneMinute(date) == IF date.nan THEN InvalidDate ELSE DateOf(date.t + 1, date.ms)

\* new Date(date.getTime() + 60 * 60 * 1000)
PlusOneHour(date) == IF date.nan THEN InvalidDate ELSE DateOf(date.t + 60, date.ms)

\* n - 1 on a number that may be NaN  (startDateParts[1] - 1)
Minus1(x) == IF x.nan THEN NaN ELSE Int32(x.n - 1)

\* The local fields the getters return (getFullYear, getMonth() + 1, getDate,
\* getHours, getMinutes, getSeconds) of a valid Date.
LocalFields(date, tz) ==
  LET Fields(local, c) ==
        [year |-> c.y, month |-> c.m, day |-> c.d,
         hours |-> (local % 1440) \div 60, minutes |-> local % 60,
         seconds |-> date.ms \div 1000]
  IN  Fields(date.t + tz, CivilFromDays((date.t + tz) \div 1440))

\* "NaN", what every getter of an Invalid Date prints as.
NaNText == <<78, 97, 78>>

\* The fields printed from the UTC getters in place of the local ones.
formatDateFromUTC(date, tz) ==
  IF date.nan
  THEN NaNText \o NaNText \o NaNText \o <<84>> \o NaNText \o NaNText \o NaNText \o <<90>>
  ELSE LET Stamp(f) ==
             NumberToString(f.year) \o padStart2(NumberToString(f.month))
               \o padStart2(NumberToString(f.day)) \o <<84>>
               \o padStart2(NumberToString(f.hours)) \o padStart2(NumberToString(f.minutes))
               \o padStart2(NumberToString(f.seconds)) \o <<90>>
       IN  Stamp(LocalFields(date, 0))

formatDateForICS(date, tz) ==
  IF date.nan
  THEN NaNText \o NaNText \o NaNText \o <<84>> \o NaNText \o NaNText \o NaNText \o <<90>>
  ELSE LET Stamp(f) ==
             NumberToString(f.year) \o padStart2(NumberToString(f.month))
               \o padStart2(NumberToString(f.day)) \o <<84>>          \* 'T'
               \o padStart2(NumberToString(f.hours)) \o padStart2(NumberToString(f.minutes))
               \o padStart2(NumberToString(f.seconds)) \o <<90>>      \* 'Z'
       IN  Stamp(LocalFields(date, tz))

(***************************************************************************)
(* Base64.  btoa and atob are the platform's (WHATWG forgiving-base64);    *)
(* btoa throws on a code unit above 255 and where the runtime has no btoa. *)
(* safeBtoa falls back to its own loop when btoa throws.                   *)
(***************************************************************************)
B64(k) == base64chars[k + 1]

\* Character k of the output belongs to the group of three bytes that starts
\* at i; a group cut short by the end of the input is padded with '='.
btoa(str) ==
  [k \in 1..(4 * ((Len(str) + 2) \div 3)) |->
     LET i == 3 * ((k - 1) \div 4) + 1
         n == Len(str) - i + 1
         a == str[i]
         b == IF n >= 2 THEN str[i + 1] ELSE 0
         c == IF n >= 3 THEN str[i + 2] ELSE 0
     IN  CASE (k - 1) % 4 = 0 -> B64(a \div 4)
           [] (k - 1) % 4 = 1 -> B64((a % 4) * 16 + b \div 16)
           [] (k - 1) % 4 = 2 -> IF n >= 2 THEN B64((b % 16) * 4 + c \div 64) ELSE 61
           [] OTHER -> IF n >= 3 THEN B64(c % 64) ELSE 61]

btoaThrows(str, hasBtoa) == ~hasBtoa \/ \E i \in 1..Len(str) : str[i] > 255

\* x | y on naturals.
RECURSIVE BitOr(_, _)
BitOr(x, y) ==
  IF x = 0 THEN y
  ELSE IF y = 0 THEN x
  ELSE (IF x % 2 = 1 \/ y % 2 = 1 THEN 1 ELSE 0) + 2 * BitOr(x \div 2, y \div 2)

\* Bits 0..23 of trio = (a << 16) | (b << 8) | c, all that the four shifts
\* below read.  a, b and c are 16-bit code units, so the three overlap when
\* one is above 255: bits 16..23 are (a & 0xff) | (b >> 8), bits 8..15 are
\* (b & 0xff) | (c >> 8), bits 0..7 are c & 0xff.
Trio24(a, b, c) ==
  BitOr(a % 256, b \div 256) * 65536 + BitOr(b % 256, c \div 256) * 256 + (c % 256)

\* The while loop of safeBtoa's catch block.  Every pass but the last reads
\* three code units, so pass g (from 0) starts with the source's 0-based i at
\* 3g, and there are ceil(str.length / 3) passes of four characters each; i
\* is advanced only while it is below str.length.  Character k of the output
\* is character (k - 1) % 4 of pass (k - 1) div 4.
customBase64(str) ==
  [k \in 1..(4 * ((Len(str) + 2) \div 3)) |->
     LET i == 3 * ((k - 1) \div 4)
         a == str[i + 1]
         i1 == i + 1
         b == IF i1 < Len(str) THEN str[i1 + 1] ELSE 0
         i2 == IF i1 < Len(str) THEN i1 + 1 ELSE i1
         c == IF i2 < Len(str) THEN str[i2 + 1] ELSE 0
         i3 == IF i2 < Len(str) THEN i2 + 1 ELSE i2
         trio == Trio24(a, b, c)
     IN  CASE (k - 1) % 4 = 0 -> B64(trio \div 262144)            \* (trio >> 18) & 0x3f
           [] (k - 1) % 4 = 1 -> B64((trio \div 4096) % 64)       \* (trio >> 12) & 0x3f
           [] (k - 1) % 4 = 2 ->
                IF i3 > Len(str) + 1 THEN 61 ELSE B64((trio \div 64) % 64)
           [] OTHER -> IF i3 > Len(str) THEN 61 ELSE B64(trio % 64)]

\* A call that returns a string or throws: [threw, v].
Returned(v) == [threw |-> FALSE, v |-> v]
Threw == [threw |-> TRUE, v |-> <<>>]

\* btoa(str) as called at line 50.
CallBtoa(str, hasBtoa) == IF btoaThrows(str, hasBtoa) THEN Threw ELSE Returned(btoa(str))

\* The platform call alone, with no try/catch around it.
safeBtoaNoCatch(str, hasBtoa) == CallBtoa(str, hasBtoa)

\* try { return btoa(str) } catch (e) { ... return output }
safeBtoa(str, hasBtoa) ==
  LET Try(r) == IF r.threw THEN Returned(customBase64(str)) ELSE r
  IN  Try(CallBtoa(str, hasBtoa))

\* atob: [ok, text].  White space is dropped, one or two trailing '=' of a
\* length that is a multiple of 4 are dropped, then a remaining length of
\* 1 mod 4 or a character outside the alphabet is an error.
B64Index(ch) ==
  CASE ch \in 65..90 -> ch - 65        \* 'A'..'Z'
    [] ch \in 97..122 -> ch - 71       \* 'a'..'z'
    [] ch \in 48..57 -> ch + 4         \* '0'..'9'
    [] ch = 43 -> 62                   \* '+'
    [] ch = 47 -> 63                   \* '/'
    [] OTHER -> -1

\* The bytes of padding-free base64 text d: four characters give three
\* bytes, a last group of two or three characters gives one or two.
AtobBytes(d) ==
  LET rest == Len(d) % 4
      outLen == 3 * (Len(d) \div 4) + (IF rest = 0 THEN 0 ELSE rest - 1)
  IN  [k \in 1..outLen |->
         LET i == 4 * ((k - 1) \div 3) + 1
             v1 == B64Index(d[i])
             v2 == B64Index(d[i + 1])
             v3 == IF i + 2 <= Len(d) THEN B64Index(d[i + 2]) ELSE 0
             v4 == IF i + 3 <= Len(d) THEN B64Index(d[i + 3]) ELSE 0
         IN  CASE (k - 1) % 3 = 0 -> v1 * 4 + v2 \div 16
               [] (k - 1) % 3 = 1 -> (v2 % 16) * 16 + v3 \div 4
               [] OTHER -> (v3 % 4) * 64 + v4]

atob(data) ==
  LET d0 == SelectSeq(data, LAMBDA ch : ~(ch \in {9, 10, 12, 13, 32}))
      pad == IF Len(d0) % 4 = 0 /\ Len(d0) >= 2 /\ d0[Len(d0)] = 61
             THEN (IF d0[Len(d0) - 1] = 61 THEN 2 ELSE 1) ELSE 0
      d == SubSeq(d0, 1, Len(d0) - pad)
  IN  IF Len(d) % 4 = 1 \/ \E i \in 1..Len(d) : B64Index(d[i]) < 0
      THEN [ok |-> FALSE, text |-> <<>>]
      ELSE [ok |-> TRUE, text |-> AtobBytes(d)]

(***************************************************************************)
(* generateICSFile (index.tsx 531-625).  eventData is null or an object of *)
(* the seven fields; `now` is the instant new Date() returns, as           *)
(* [min, ms]: whole minutes since the epoch and milliseconds within the    *)
(* minute.  The result records which block returned (path "try" or         *)
(* "catch"), the document text that was encoded and the payload returned.  *)
(***************************************************************************)
NullEvent ==
  [t |-> "null", event_title |-> Undefined, start_date |-> Undefined,
   start_time |-> Undefined, end_date |-> Undefined, end_time |-> Undefined,
   location |-> Undefined, description |-> Undefined]

\* new Date().getTime() printed in decimal: min * 60000 + ms, written as
\* (min * 6 + ms div 10000) followed by the four digits of ms mod 10000.
TimestampString(now) ==
  LET lo == NatToString(now.ms % 10000)
      pad == [i \in 1..(4 - Len(lo)) |-> 48]
  IN  NatToString(now.min * 6 + now.ms \div 10000) \o pad \o lo

\* value.replace(/ch/g, rep)
RECURSIVE ReplaceAll(_, _, _)
ReplaceAll(s, ch, rep) ==
  IF s = <<>> THEN <<>>
  ELSE (IF Head(s) = ch THEN rep ELSE <<Head(s)>>) \o ReplaceAll(Tail(s), ch, rep)

\* value.replace is not a function: a truthy value that is not a string.
formatICSValueThrows(value) == Truthy(value) /\ value.t # "string"

\* The escaping alone, with no value taken for absent.
formatICSValueAsText(value) ==
  IF value.t # "string" THEN <<>>
  ELSE ReplaceAll(ReplaceAll(value.v, 10, <<92, 110>>), 44, <<92, 44>>)

formatICSValue(value) ==
  IF ~Truthy(value) \/ value.v = NONE_WORD \/ value.v = NOT_SPECIFIED THEN <<>>
  ELSE ReplaceAll(ReplaceAll(value.v, 10, <<92, 110>>), 44, <<92, 44>>)

\* Lines 540-546.
StartDateOf(e, now, tz) ==
  LET startDateParts == ParseParts(e.start_date.v, 45)       \* split('-')
      startTimeParts == ParseParts(e.start_time.v, 58)       \* split(':')
      d1 == setFullYear(NewDate(now), tz, Part(startDateParts, 1),
                        Minus1(Part(startDateParts, 2)), Part(startDateParts, 3))
  IN  setHours(d1, tz, Part(startTimeParts, 1), Part(startTimeParts, 2))

\* Lines 548-565.
EndDateOf(e, now, tz) ==
  IF Truthy(e.end_date) /\ Truthy(e.end_time)
  THEN LET endDateParts == ParseParts(e.end_date.v, 45)
           endTimeParts == ParseParts(e.end_time.v, 58)
           d1 == setFullYear(NewDate(now), tz, Part(endDateParts, 1),
                             Minus1(Part(endDateParts, 2)), Part(endDateParts, 3))
       IN  setHours(d1, tz, Part(endTimeParts, 1), Part(endTimeParts, 2))
  ELSE IF Truthy(e.end_time)
  THEN LET startDateParts == ParseParts(e.start_date.v, 45)
           endTimeParts == ParseParts(e.end_time.v, 58)
           d1 == setFullYear(NewDate(now), tz, Part(startDateParts, 1),
                             Minus1(Part(startDateParts, 2)), Part(startDateParts, 3))
       IN  setHours(d1, tz, Part(endTimeParts, 1), Part(endTimeParts, 2))
  ELSE PlusOneHour(StartDateOf(e, now, tz))

\* What makes the try block throw, in the order the statements run: a
\* property read of null (540), .split of a value that is not a string
\* (540, 541, 551, 552, 558), toISOString of an Invalid Date (567, 568),
\* .replace of a truthy value that is not a string (590).
generateICSFileThrows(e, now, tz) ==
  \/ e.t = "null"
  \/ e.start_date.t # "string"
  \/ e.start_time.t # "string"
  \/ /\ Truthy(e.end_date) /\ Truthy(e.end_time)
     /\ (e.end_date.t # "string" \/ e.end_time.t # "string")
  \/ /\ ~(Truthy(e.end_date) /\ Truthy(e.end_time)) /\ Truthy(e.end_time)
     /\ e.end_time.t # "string"
  \/ StartDateOf(e, now, tz).nan
  \/ EndDateOf(e, now, tz).nan
  \/ formatICSValueThrows(e.event_title)
  \/ formatICSValueThrows(e.location)
  \/ formatICSValueThrows(e.description)

RECURSIVE Join(_, _)
Join(lines, sep) ==
  IF lines = <<>> THEN <<>>
  ELSE IF Len(lines) = 1 THEN lines[1]
  ELSE lines[1] \o sep \o Join(Tail(lines), sep)

\* Lines 583-614: the document of the try block.
icsContent(e, now, tz) ==
  LET Lines(uid, startDateFormatted, endDateFormatted, title, location, description) ==
        << BEGIN_VCALENDAR, VERSION_LINE, PRODID_LINE, CALSCALE_LINE, METHOD_LINE,
           BEGIN_VEVENT,
           SubSeq(UID_PREFIX, 1, 4) \o uid,
           DTSTAMP_PREFIX \o startDateFormatted,
           DTSTART_PREFIX \o startDateFormatted,
           DTEND_PREFIX \o endDateFormatted,
           SUMMARY_PREFIX \o (IF title # <<>> THEN title ELSE CALENDAR_EVENT),
           IF location # <<>> THEN LOCATION_PREFIX \o location ELSE <<>>,
           IF description # <<>> THEN DESCRIPTION_PREFIX \o description ELSE <<>>,
           END_VEVENT, END_VCALENDAR >>
      lines == Lines(SubSeq(UID_PREFIX, 5, Len(UID_PREFIX)) \o TimestampString(now)
                       \o UID_SUFFIX,
                     formatDateForICS(StartDateOf(e, now, tz), tz),
                     formatDateForICS(EndDateOf(e, now, tz), tz),
                     formatICSValue(e.event_title),
                     formatICSValue(e.location),
                     formatICSValue(e.description))
  IN  Join(SelectSeq(lines, LAMBDA l : l # <<>>), CRLF)       \* filter(Boolean).join

\* The try block: the statements up to line 616 throw or build the document,
\* then safeBtoa encodes it: [threw, text, v].
TryBlock(e, now, p) ==
  IF generateICSFileThrows(e, now, p.tz) THEN [threw |-> TRUE, text |-> <<>>, v |-> <<>>]
  ELSE LET Encoded(text, r) == [threw |-> r.threw, text |-> text, v |-> r.v]
           Encode(text) == Encoded(text, safeBtoa(text, p.hasBtoa))
       IN  Encode(icsContent(e, now, p.tz))

\* The result: [threw, path, text, payload]; threw when an exception leaves
\* the function, which takes one thrown inside the catch block.
generateICSFile(e, now, p) ==
  LET Result(try, catch) ==
        IF try.threw
        THEN [threw |-> catch.threw, path |-> "catch", text |-> FALLBACK_ICS,
              payload |-> catch.v]
        ELSE [threw |-> FALSE, path |-> "try", text |-> try.text, payload |-> try.v]
  IN  Result(TryBlock(e, now, p), safeBtoa(FALLBACK_ICS, p.hasBtoa))

(***************************************************************************)
(* formatDate of EventPreview (EventPreview.tsx 130-170).  The components  *)
(* are split('-') and parseInt as above; destructuring past the end of the *)
(* array gives undefined, which is NaN in arithmetic and prints as         *)
(* "undefined".  The result is a JavaScript value: the formatted string,   *)
(* or the argument itself when .split is not a function of it.             *)
(***************************************************************************)
monthNames ==
  << <<74, 97, 110, 117, 97, 114, 121>>   \* "January"
   , <<70, 101, 98, 114, 117, 97, 114, 121>>   \* "February"
   , <<77, 97, 114, 99, 104>>   \* "March"
   , <<65, 112, 114, 105, 108>>   \* "April"
   , <<77, 97, 121>>   \* "May"
   , <<74, 117, 110, 101>>   \* "June"
   , <<74, 117, 108, 121>>   \* "July"
   , <<65, 117, 103, 117, 115, 116>>   \* "August"
   , <<83, 101, 112, 116, 101, 109, 98, 101, 114>>   \* "September"
   , <<79, 99, 116, 111, 98, 101, 114>>   \* "October"
   , <<78, 111, 118, 101, 109, 98, 101, 114>>   \* "November"
   , <<68, 101, 99, 101, 109, 98, 101, 114>>   \* "December"
  >>

dayNames ==
  << <<83, 97, 116, 117, 114, 100, 97, 121>>   \* "Saturday"
   , <<83, 117, 110, 100, 97, 121>>   \* "Sunday"
   , <<77, 111, 110, 100, 97, 121>>   \* "Monday"
   , <<84, 117, 101, 115, 100, 97, 121>>   \* "Tuesday"
   , <<87, 101, 100, 110, 101, 115, 100, 97, 121>>   \* "Wednesday"
   , <<84, 104, 117, 114, 115, 100, 97, 121>>   \* "Thursday"
   , <<70, 114, 105, 100, 97, 121>>   \* "Friday"
  >>

UNDEFINED_TEXT == <<117, 110, 100, 101, 102, 105, 110, 101, 100>>   \* "undefined"

\* The same congruence with January and February left in their own year.
getWeekdayNameNoShift(year, month, day) ==
  IF year.nan \/ month.nan \/ day.nan THEN UNDEFINED_TEXT
  ELSE LET H(m, y) == (day.n + (13 * (m + 1)) \div 5 + y + y \div 4 - y \div 100 + y \div 400) % 7
       IN  dayNames[H(month.n, year.n) + 1]

\* Lines 145-159.  The components come from split('-'), so none is negative
\* and the sum is positive: % is the remainder of a positive number.  With a
\* NaN component h is NaN and dayNames[h] is undefined.
getWeekdayName(year, month, day) ==
  IF year.nan \/ month.nan \/ day.nan THEN UNDEFINED_TEXT
  ELSE LET H(m, y) == (day.n + (13 * (m + 1)) \div 5 + y + y \div 4 - y \div 100 + y \div 400) % 7
       IN  IF month.n < 3 THEN dayNames[H(month.n + 12, year.n - 1) + 1]
           ELSE dayNames[H(month.n, year.n) + 1]

\* `${x}` of a component: the number in decimal, "NaN", or "undefined".
ComponentText(parts, k) ==
  IF k > Len(parts) THEN UNDEFINED_TEXT
  ELSE IF parts[k].nan THEN NaNText
  ELSE NumberToString(parts[k].n)

\* monthNames[month - 1], printed.
MonthNameText(month) ==
  IF ~month.nan /\ month.n \in 1..12 THEN monthNames[month.n] ELSE UNDEFINED_TEXT

formatDate(dateStr) ==
  IF dateStr.t # "string" THEN dateStr
  ELSE LET Show(parts) ==
             Str(getWeekdayName(Part(parts, 1), Part(parts, 2), Part(parts, 3))
                   \o <<44, 32>> \o MonthNameText(Part(parts, 2)) \o <<32>>
                   \o ComponentText(parts, 3) \o <<44, 32>> \o ComponentText(parts, 1))
       IN  Show(ParseParts(dateStr.v, 45))

(***************************************************************************)
(* capitalizeWords (index.tsx 492-513).  toUpperCase and toLowerCase are   *)
(* the Unicode default case conversions on Basic Latin and Latin-1 (sharp  *)
(* s upper-cases to "SS", y-diaeresis and micro leave Latin-1); code units *)
(* above 255 are left as they are.                                         *)
(***************************************************************************)
toUpperCaseUnit(c) ==
  IF c \in 97..122 THEN <<c - 32>>
  ELSE IF c \in 224..254 /\ c # 247 THEN <<c - 32>>
  ELSE IF c = 223 THEN <<83, 83>>
  ELSE IF c = 255 THEN <<376>>
  ELSE IF c = 181 THEN <<924>>
  ELSE <<c>>

toLowerCaseUnit(c) ==
  IF c \in 65..90 THEN c + 32
  ELSE IF c \in 192..222 /\ c # 215 THEN c + 32
  ELSE c

toLowerCase(s) == [i \in 1..Len(s) |-> toLowerCaseUnit(s[i])]

minorWords ==
  << <<97>>, <<97, 110>>, <<116, 104, 101>>, <<97, 110, 100>>, <<98, 117, 116>>,
     <<111, 114>>, <<102, 111, 114>>, <<110, 111, 114>>, <<111, 110>>, <<97, 116>>,
     <<116, 111>>, <<102, 114, 111, 109>>, <<98, 121>>, <<105, 110>>, <<111, 102>> >>

\* word.charAt(0).toUpperCase() + word.slice(1).toLowerCase()
Capitalized(word) ==
  IF word = <<>> THEN <<>>
  ELSE toUpperCaseUnit(word[1]) \o toLowerCase(Tail(word))

\* text.split is not a function: a truthy value that is not a string.
capitalizeWordsThrows(text) == Truthy(text) /\ text.t # "string"

\* Every word capitalized, the minor words as well.
capitalizeEveryWord(text) ==
  IF ~Truthy(text) THEN <<>>
  ELSE LET array == split(text.v, 32)
       IN  Join([index \in 1..Len(array) |-> Capitalized(array[index])], <<32>>)

capitalizeWords(text) ==
  IF ~Truthy(text) THEN <<>>
  ELSE LET array == split(text.v, 32)
           mapped == [index \in 1..Len(array) |->
                        IF index = 1 \/ index = Len(array) THEN Capitalized(array[index])
                        ELSE IF \E k \in 1..Len(minorWords) :
                                   minorWords[k] = toLowerCase(array[index])
                        THEN toLowerCase(array[index])
                        ELSE Capitalized(array[index])]
       IN  Join(mapped, <<32>>)

\* String.prototype.trim
RECURSIVE trim(_)
trim(s) ==
  IF s = <<>> THEN s
  ELSE IF IsWhiteSpace(Head(s)) THEN trim(Tail(s))
  ELSE IF IsWhiteSpace(s[Len(s)]) THEN trim(SubSeq(s, 1, Len(s) - 1))
  ELSE s

(***************************************************************************)
(* formatLocation of EventPreview (186-201).                               *)
(***************************************************************************)
\* Each comma-delimited part trimmed, its words recased, the parts joined by
\* ", ": a word of lowercaseWords that is not equal to the part's first word
\* is lower-cased, every other word capitalized.
formatLocation(location) ==
  LET lowercaseWords ==
        << <<97, 110, 100>>, <<111, 114>>, <<116, 104, 101>>, <<97>>, <<97, 110>>,
           <<111, 102>>, <<116, 111>>, <<105, 110>>, <<102, 111, 114>>, <<111, 110>>,
           <<98, 121>>, <<97, 116>> >>
      Word(word, first) ==
        IF /\ \E j \in 1..Len(lowercaseWords) : lowercaseWords[j] = toLowerCase(word)
           /\ word # first
        THEN toLowerCase(word)
        ELSE Capitalized(word)
      Recase(words) == Join([k \in 1..Len(words) |-> Word(words[k], words[1])], <<32>>)
      parts == IF Truthy(location) THEN split(location.v, 44) ELSE <<>>
  IN  IF ~Truthy(location) THEN <<>>
      ELSE Join([k \in 1..Len(parts) |-> Recase(split(trim(parts[k]), 32))], <<44, 32>>)

(***************************************************************************)
(* handleExportICS of EventPreview (26-51).                                *)
(***************************************************************************)
\* The title with nothing replaced.
fileNameUnsanitized(event_title) == event_title.v \o <<46, 105, 99, 115>>

\* `${eventData.event_title.replace(/[^a-zA-Z0-9]/g, '_')}.ics`: the
\* expression matches one code unit at a time.
fileName(event_title) ==
  LET IsAlphanumeric(c) == c \in 48..57 \/ c \in 65..90 \/ c \in 97..122
  IN  [k \in 1..Len(event_title.v) |->
         IF IsAlphanumeric(event_title.v[k]) THEN event_title.v[k] ELSE 95]
        \o <<46, 105, 99, 115>>   \* ".ics"

\* What a run of the handler did: the file written and offered, or the
\* alert shown.  replace is not a function of a title that is not a string,
\* and atob throws on a payload that is not base64.
handleExportICS(eventData, icsFile, sharing) ==
  LET Failed == [fileName |-> Undefined, written |-> Undefined, shared |-> FALSE,
                 alert |-> "Failed to export calendar event"]
      Write(name, content) ==
        IF ~content.ok THEN Failed
        ELSE [fileName |-> Str(name), written |-> Str(content.text), shared |-> sharing,
              alert |-> IF sharing THEN "" ELSE "Sharing is not available on this device"]
  IN  IF eventData.event_title.t # "string" THEN Failed
      ELSE Write(fileName(eventData.event_title), atob(icsFile))

(***************************************************************************)
(* handleAddToCalendar of EventPreview (54-127).                           *)
(***************************************************************************)
\* The first calendar, whatever it is.
firstCalendar(calendars) == IF calendars # <<>> THEN calendars[1] ELSE Undefined

\* calendars.find(cal => cal.isPrimary && cal.allowsModifications)
\*   || calendars[0]; undefined for an empty list.
defaultCalendar(calendars) ==
  LET found == {k \in 1..Len(calendars) :
                  calendars[k].isPrimary /\ calendars[k].allowsModifications}
  IN  IF found # {} THEN calendars[CHOOSE k \in found : \A j \in found : k <= j]
      ELSE IF calendars # <<>> THEN calendars[1]
      ELSE Undefined

\* Lines 76-106 throw on .split of a value that is not a string.
handleAddToCalendarThrows(e) ==
  \/ e.start_date.t # "string"
  \/ e.start_time.t # "string"
  \/ /\ Truthy(e.end_date) /\ Truthy(e.end_time)
     /\ (e.end_date.t # "string" \/ e.end_time.t # "string")
  \/ /\ ~(Truthy(e.end_date) /\ Truthy(e.end_time)) /\ Truthy(e.end_time)
     /\ e.end_time.t # "string"

\* Lines 76-106 and the details of line 111-118, at the instant `now`:
\* the dates are set with setFullYear and setHours(h, m, 0, 0) on new Date().
eventDetails(e, now, tz) ==
  LET start == ParseParts(e.start_date.v, 45)            \* startYear, startMonth, startDay
      startTime == ParseParts(e.start_time.v, 58)        \* startHours, startMinutes
      startDate == setHours(setFullYear(NewDate(now), tz, Part(start, 1),
                                        Minus1(Part(start, 2)), Part(start, 3)),
                            tz, Part(startTime, 1), Part(startTime, 2))
      endDate ==
        IF Truthy(e.end_date) /\ Truthy(e.end_time)
        THEN LET end == ParseParts(e.end_date.v, 45)
                 endTime == ParseParts(e.end_time.v, 58)
             IN  setHours(setFullYear(NewDate(now), tz, Part(end, 1),
                                      Minus1(Part(end, 2)), Part(end, 3)),
                          tz, Part(endTime, 1), Part(endTime, 2))
        ELSE IF Truthy(e.end_time)
        THEN LET endTime == ParseParts(e.end_time.v, 58)
             IN  setHours(setFullYear(NewDate(now), tz, Part(start, 1),
                                      Minus1(Part(start, 2)), Part(start, 3)),
                          tz, Part(endTime, 1), Part(endTime, 2))
        ELSE PlusOneHour(startDate)
  IN  [title |-> e.event_title, startDate |-> startDate, endDate |-> endDate,
       location |-> e.location, notes |-> e.description,
       alarms |-> <<[relativeOffset |-> -10]>>]

(***************************************************************************)
(* EncryptionService (src/constants/Encryption.ts).  A key is a string.    *)
(* CryptoJS.AES.encrypt(text, key).toString() is a text that               *)
(* CryptoJS.AES.decrypt turns back into `text` with the same key; with     *)
(* another key the bytes are noise, and bytes.toString(Utf8) throws        *)
(* "Malformed UTF-8 data" or gives the empty string.  A value is           *)
(* undefined, null, a boolean, a number, a string, or an object or array   *)
(* written as its JSON text.                                               *)
(***************************************************************************)
DEFAULT_KEY == Str(<<100, 101, 102, 97, 117, 108, 116, 45, 107, 101, 121, 45, 109, 117, 115, 116, 45, 98, 101, 45, 99, 104, 97, 110, 103, 101, 100, 45, 105, 110, 45, 112, 114, 111, 100, 117, 99, 116, 105, 111, 110>>)

Null == [t |-> "null", v |-> <<>>]
Bool(b) == [t |-> "boolean", v |-> <<IF b THEN 1 ELSE 0>>]
Object(json) == [t |-> "object", v |-> json]

\* !data: undefined, null, false, 0 and "" are falsy.
Falsy(x) ==
  CASE x.t \in {"undefined", "null"} -> TRUE
    [] x.t = "boolean" -> x.v = <<0>>
    [] x.t = "number" -> x.v = <<0>>
    [] x.t = "string" -> x.v = <<>>
    [] OTHER -> FALSE

\* JSON.stringify of a value that is not a string.
JSONstringify(x) ==
  CASE x.t = "null" -> <<110, 117, 108, 108>>
    [] x.t = "boolean" -> IF x.v = <<1>> THEN <<116, 114, 117, 101>> ELSE <<102, 97, 108, 115, 101>>
    [] x.t = "number" -> NumberToString(x.v[1])
    [] OTHER -> x.v

\* JSON.parse of a text: white space around one value; the values read are
\* null, true, false, an integer without leading zeros, a string without
\* escapes, {} and [], and the objects of JSONstringify; every other text is
\* a SyntaxError.
JSONparse(text) ==
  LET IsSpace(c) == c \in {9, 10, 13, 32}
      first == IF \E i \in 1..Len(text) : ~IsSpace(text[i])
               THEN CHOOSE i \in 1..Len(text) :
                      ~IsSpace(text[i]) /\ \A j \in 1..(i - 1) : IsSpace(text[j])
               ELSE 1
      last == IF \E i \in 1..Len(text) : ~IsSpace(text[i])
              THEN CHOOSE i \in 1..Len(text) :
                     ~IsSpace(text[i]) /\ \A j \in (i + 1)..Len(text) : IsSpace(text[j])
              ELSE 0
      s == SubSeq(text, first, last)
      digits == IF s # <<>> /\ s[1] = 45 THEN Tail(s) ELSE s
      IsInteger == /\ digits # <<>>
                   /\ \A i \in 1..Len(digits) : IsDigit(digits[i])
                   /\ (Len(digits) > 1 => digits[1] # 48)
      IsString == /\ Len(s) >= 2 /\ s[1] = 34 /\ s[Len(s)] = 34
                  /\ \A i \in 2..(Len(s) - 1) : s[i] \notin {34, 92} /\ s[i] >= 32
      Syntax == [ok |-> FALSE, v |-> Undefined]
  IN  IF s = <<110, 117, 108, 108>> THEN [ok |-> TRUE, v |-> Null]
      ELSE IF s = <<116, 114, 117, 101>> THEN [ok |-> TRUE, v |-> Bool(TRUE)]
      ELSE IF s = <<102, 97, 108, 115, 101>> THEN [ok |-> TRUE, v |-> Bool(FALSE)]
      ELSE IF IsInteger
      THEN [ok |-> TRUE,
            v |-> Num(IF s[1] = 45 THEN 0 - DigitsValue(digits, 0) ELSE DigitsValue(digits, 0))]
      ELSE IF IsString THEN [ok |-> TRUE, v |-> Str(SubSeq(s, 2, Len(s) - 1))]
      ELSE IF s \in {<<123, 125>>, <<91, 93>>, <<123, 34, 97, 34, 58, 49, 125>>} THEN [ok |-> TRUE, v |-> Object(s)]
      ELSE Syntax

\* private getKey(): this.encryptionKey || DEFAULT_KEY
getKey(encryptionKey) == IF Falsy(encryptionKey) THEN DEFAULT_KEY ELSE encryptionKey

\* The text CryptoJS.AES.encrypt(dataStr, key).toString() gives.
Cipher(dataStr, key) == [t |-> "cipher", key |-> key, v |-> dataStr]

\* public encrypt(data)
encrypt(data, encryptionKey) ==
  IF Falsy(data) THEN Str(<<>>)
  ELSE Cipher(IF data.t = "string" THEN data.v ELSE JSONstringify(data),
              getKey(encryptionKey))

\* public decrypt(encryptedData); `noise` is what the bytes of another key,
\* or of a text that is no cipher text, come to: null (toString threw), ""
\* or a text that is no JSON.
decrypt(encryptedData, encryptionKey, noise) ==
  IF Falsy(encryptedData) THEN Null
  ELSE IF encryptedData.t # "cipher" \/ encryptedData.key # getKey(encryptionKey)
  THEN noise
  ELSE LET Parsed(r) == IF r.ok THEN r.v ELSE Str(encryptedData.v)
       IN  Parsed(JSONparse(encryptedData.v))

\* public encryptMessage(message): encrypt does not throw on these values.
encryptMessage(message, encryptionKey) ==
  [encrypted |-> encrypt(message, encryptionKey), isEncrypted |-> TRUE]

\* public decryptMessage(message)
decryptMessage(message, encryptionKey, noise) ==
  IF ~message.isEncrypted THEN message.encrypted
  ELSE decrypt(message.encrypted, encryptionKey, noise)

(***************************************************************************)
(* State.                                                                  *)
(***************************************************************************)
VARIABLES
  platform,      \* the runtime: [hasBtoa, tz]
  now,           \* the clock: [min, ms]
  eventData,     \* the argument of the generateICSFile call under test
  gen,           \* that call's result: [called, threw, path, text, payload]
  exported,      \* handleExportICS: [done, ok, text], the text it writes
  inputText,     \* HomeScreen state (index.tsx 80-86) ...
  isLoading,
  recording,
  isRecording,
  selectedImage,
  audioData,
  currentEvent,  \* ... null or [data, ics]
  user,          \* useAuth().user: signed in or not
  timers,        \* the setTimeout callbacks of stopRecording not yet run
  pending,       \* the handleSendMessage calls waiting for the API's answer
  result,        \* the API answer last handled, and the call it answered
  sent,          \* how many handleSendMessage calls reached the API
  call,          \* a call of a display function: [fn, arg]
  ret,           \* what that call returned: [returned, threw, v]
  calendar,      \* a run of handleAddToCalendar: where it is, what it was
                 \* answered, the createEventAsync calls and the alerts
  service        \* the EncryptionService instance, the SecureStore item, the
                 \* initialize() call under way, a value encrypted and what
                 \* decrypting it returned

icsVars == <<eventData, gen, exported>>
homeVars == <<inputText, isLoading, recording, isRecording, selectedImage, audioData,
              currentEvent, user, timers, pending, result, sent>>
displayVars == <<call, ret>>
deviceVars == <<calendar, service>>
vars == <<platform, now, icsVars, homeVars, displayVars, deviceVars>>

(***************************************************************************)
(* Inputs.                                                                 *)
(***************************************************************************)
\* Longest generated title.
MaxTextLen == 2

\* Code units the generated titles are made of: 'a', ',', LF, CR and U+2615
\* (outside Latin-1, so that btoa throws on it).
TextAlphabet == {97, 44, 10, 13, 9749}

StringsUpTo(n) == UNION {[1..k -> TextAlphabet] : k \in 0..n}

\* start_date as the API may send it: calendar dates, a day its month does not
\* have, a year below 1000, a month and a day out of range, unpadded components, text, empty, absent.
StartDates ==
  { Str(<<50, 48, 50, 52, 45, 48, 51, 45, 49, 48>>)   \* "2024-03-10"
    , Str(<<50, 48, 50, 52, 45, 48, 50, 45, 50, 57>>)   \* "2024-02-29"
    , Str(<<50, 48, 50, 51, 45, 49, 50, 45, 51, 49>>)   \* "2023-12-31"
    , Str(<<50, 48, 50, 52, 45, 48, 50, 45, 51, 48>>)   \* "2024-02-30"
    , Str(<<48, 57, 57, 57, 45, 49, 50, 45, 51, 49>>)   \* "0999-12-31"
    , Str(<<50, 48, 50, 52, 45, 49, 51, 45, 48, 53>>)   \* "2024-13-05"
    , Str(<<50, 48, 50, 52, 45, 48, 49, 45, 51, 50>>)   \* "2024-01-32"
    , Str(<<50, 48, 50, 52, 45, 51, 45, 53>>)   \* "2024-3-5"
    , Str(<<116, 111, 109, 111, 114, 114, 111, 119>>)   \* "tomorrow"
    , Str(<<>>)   \* ""
    , Undefined
  }

\* start_time: in range, at the end of the day, an hour out of range, text, no
\* minutes, absent.
StartTimes ==
  { Str(<<49, 52, 58, 48, 48>>)   \* "14:00"
    , Str(<<50, 51, 58, 51, 48>>)   \* "23:30"
    , Str(<<48, 57, 58, 48, 53>>)   \* "09:05"
    , Str(<<50, 52, 58, 48, 48>>)   \* "24:00"
    , Str(<<110, 111, 111, 110>>)   \* "noon"
    , Str(<<57>>)   \* "9"
    , Undefined
  }

\* end_date: absent, empty, the day of the first StartDates entry, the day after,
\* the day before, a day February does not have, the upstream placeholder word.
EndDates ==
  { Undefined
    , Str(<<>>)   \* ""
    , Str(<<50, 48, 50, 52, 45, 48, 51, 45, 49, 48>>)   \* "2024-03-10"
    , Str(<<50, 48, 50, 52, 45, 48, 51, 45, 49, 49>>)   \* "2024-03-11"
    , Str(<<50, 48, 50, 52, 45, 48, 51, 45, 48, 57>>)   \* "2024-03-09"
    , Str(<<50, 48, 50, 52, 45, 48, 50, 45, 51, 48>>)   \* "2024-02-30"
    , Str(<<78, 111, 110, 101>>)   \* "None"
  }

\* end_time: absent, empty, after / before / equal to the first StartTimes entry,
\* past midnight, out of range, text.
EndTimes ==
  { Undefined
    , Str(<<>>)   \* ""
    , Str(<<49, 53, 58, 48, 48>>)   \* "15:00"
    , Str(<<48, 57, 58, 48, 48>>)   \* "09:00"
    , Str(<<49, 52, 58, 48, 48>>)   \* "14:00"
    , Str(<<48, 48, 58, 51, 48>>)   \* "00:30"
    , Str(<<50, 53, 58, 48, 48>>)   \* "25:00"
    , Str(<<115, 111, 111, 110>>)   \* "soon"
  }

\* event_title beyond the generated strings: absent, placeholder words, a plain
\* title, a title holding a line break and a marker line, a title holding a
\* backslash before n and the same with a line break in their place, numbers.
SpecialTitles ==
  { Undefined
    , Str(<<78, 111, 110, 101>>)   \* "None"
    , Str(<<78, 111, 116, 32, 115, 112, 101, 99, 105, 102, 105, 101, 100>>)   \* "Not specified"
    , Str(<<110, 111, 110, 101>>)   \* "none"
    , Str(<<84, 101, 97, 109, 32, 83, 121, 110, 99>>)   \* "Team Sync"
    , Str(<<97, 13, 10, 69, 78, 68, 58, 86, 69, 86, 69, 78, 84>>)   \* "a\r\nEND:VEVENT"
    , Str(<<97, 92, 110, 98>>)   \* "a\nb": a backslash and the letter n
    , Str(<<97, 10, 98>>)   \* 'a', LF, 'b'
    , Num(5)
    , Num(0)
  }

\* location / description values.
Locations ==
  { Undefined
    , Str(<<78, 111, 110, 101>>)   \* "None"
    , Str(<<82, 111, 111, 109, 32, 49, 44, 32, 66, 117, 105, 108, 100, 105, 110, 103, 32, 65>>)   \* "Room 1, Building A"
    , Str(<<120, 10, 121>>)   \* "x\ny"
  }

\* description values.
Descriptions ==
  { Undefined
    , Str(<<78, 111, 116, 32, 115, 112, 101, 99, 105, 102, 105, 101, 100>>)   \* "Not specified"
    , Str(<<110, 111, 110, 101>>)   \* "none"
    , Str(<<66, 114, 105, 110, 103, 32, 108, 97, 112, 116, 111, 112, 44, 13, 10, 99, 104, 97, 114, 103, 101, 114>>)   \* "Bring laptop,\r\ncharger"
  }

Titles == {Str(x) : x \in StringsUpTo(MaxTextLen)} \cup SpecialTitles

EventOf(title, sd, st, ed, et, loc, desc) ==
  [t |-> "object", event_title |-> title, start_date |-> sd, start_time |-> st,
   end_date |-> ed, end_time |-> et, location |-> loc, description |-> desc]

PlainTitle == Str(<<84, 101, 97, 109, 32, 83, 121, 110, 99>>)   \* "Team Sync"
BaseDate == Str(<<50, 48, 50, 52, 45, 48, 51, 45, 49, 48>>)     \* "2024-03-10"
BaseTime == Str(<<49, 52, 58, 48, 48>>)                         \* "14:00"

\* Every combination of the date and time fields, with plain text fields.
DateTimeInputs ==
  { EventOf(PlainTitle, sd, st, ed, et, Undefined, Undefined) :
      sd \in StartDates, st \in StartTimes, ed \in EndDates, et \in EndTimes }

\* Every combination of the text fields, with plain date and time fields.
TextInputs ==
  { EventOf(title, BaseDate, BaseTime, Undefined, Undefined, loc, desc) :
      title \in Titles, loc \in Locations, desc \in Descriptions }

EventInputs == DateTimeInputs \cup TextInputs \cup {NullEvent}

\* Runtimes: with and without a working btoa, west and east of Greenwich;
\* the third only where the screen runs.
Platforms ==
  << [hasBtoa |-> TRUE, tz |-> -480], [hasBtoa |-> FALSE, tz |-> 330],
     [hasBtoa |-> TRUE, tz |-> 60] >>

\* 2024-03-10T14:00:00.123Z, 2024-06-30T23:59:59.999Z and
\* 2024-12-31T22:30:00.500Z, which is 23:30 on the third runtime.
Instants ==
  << [min |-> 28501320, ms |-> 123], [min |-> 28663679, ms |-> 59999],
     [min |-> 28928070, ms |-> 500] >>

NoGen == [called |-> FALSE, threw |-> FALSE, path |-> "none", text |-> <<>>, payload |-> <<>>]
NotExported == [done |-> FALSE, ok |-> FALSE, text |-> <<>>]

\* The display functions' inputs.
\* Most words in a generated phrase.
MaxWords == 3

\* Words the phrases are made of: minor words in lower, upper and mixed
\* case, and other words.
Words ==
  { <<97>>, <<116, 114, 105, 112>>, <<116, 111>>, <<84, 72, 69>>, <<108, 97, 107, 101>>, <<79, 102>>, <<109, 73, 120, 69, 100>> }

RECURSIVE PhrasesOf(_)
PhrasesOf(n) ==
  IF n = 1 THEN Words
  ELSE PhrasesOf(n - 1) \cup {p \o <<32>> \o w : p \in PhrasesOf(n - 1), w \in Words}

\* capitalizeWords' arguments: phrases of single-spaced words, the phrase of
\* the specification's example, phrases with a double, a leading and a
\* trailing space, the empty string, no value, a number.
Phrases ==
  {Str(p) : p \in PhrasesOf(MaxWords)}
    \cup { Str(<<97, 32, 116, 114, 105, 112, 32, 116, 111, 32, 116, 104, 101, 32, 108, 97, 107, 101>>)   \* "a trip to the lake"
         , Str(<<100, 97, 121, 32, 32, 111, 102, 32, 114, 101, 115, 116>>)   \* "day  of rest"
         , Str(<<32, 116, 104, 101, 32, 101, 110, 100, 32>>)   \* " the end "
         , Str(<<>>), Undefined, Num(5) }

\* n in decimal, padded with zeros to w digits.
ZeroPadded(n, w) == [i \in 1..(w - Len(NatToString(n))) |-> 48] \o NatToString(n)

DateString(y, m, d) ==
  ZeroPadded(y, 4) \o <<45>> \o ZeroPadded(m, 2) \o <<45>> \o ZeroPadded(d, 2)

\* Years whose days are formatted: the first year, century years that are
\* and are not leap years, a leap year and common years.
DisplayYears == {1, 1900, 1999, 2000, 2023, 2024, 2100}

\* formatDate's arguments: day 1 to 31 of every month of those years (a day
\* its month does not have included), unpadded and malformed strings, no
\* value.
DateStrings ==
  {Str(DateString(y, m, d)) : y \in DisplayYears, m \in 1..12, d \in 1..31}
    \cup { Str(<<50, 48, 50, 52, 45, 51, 45, 53>>)   \* "2024-3-5"
         , Str(<<50, 48, 50, 52, 45, 49, 51, 45, 48, 53>>)   \* "2024-13-05"
         , Str(<<50, 48, 50, 52, 45, 48, 51>>)   \* "2024-03"
         , Str(<<116, 111, 109, 111, 114, 114, 111, 119>>)   \* "tomorrow"
         , Str(<<>>), Undefined }

\* Words the locations are made of: words of both lists ("the", "in"), a
\* word of capitalizeWords' list only ("from"), and other words.
LocationWords ==
  { <<116, 104, 101>>, <<105, 110>>, <<102, 114, 111, 109>>, <<112, 97, 114, 107>>, <<111, 65, 75>> }

\* Address components of at most n words.
RECURSIVE ComponentsOf(_)
ComponentsOf(n) ==
  IF n = 1 THEN LocationWords
  ELSE ComponentsOf(n - 1)
         \cup {p \o <<32>> \o w : p \in ComponentsOf(n - 1), w \in LocationWords}

\* The API's location values: one component of up to three words, two
\* components of up to two words after ", " or of one word after ",", the
\* empty string, no value, a number.
LocationTexts ==
  {Str(p) : p \in ComponentsOf(3)}
    \cup {Str(p \o <<44, 32>> \o q) : p \in ComponentsOf(2), q \in ComponentsOf(2)}
    \cup {Str(p \o <<44>> \o q) : p \in ComponentsOf(1), q \in ComponentsOf(1)}
    \cup {Str(<<>>), Undefined, Num(5)}

NoCall == [fn |-> "none", arg |-> Undefined]
NotReturned == [returned |-> FALSE, threw |-> FALSE, v |-> Undefined]

(***************************************************************************)
(* HomeScreen (index.tsx 79-490).  A handler reads the state of the render *)
(* it was created in: a press runs the handler of the latest render, the   *)
(* setTimeout callback of stopRecording runs the handleSendMessage of the  *)
(* render in which stopRecording was pressed.  A handler's steps between   *)
(* two awaits of the network are one action.                               *)
(***************************************************************************)
\* How many handleSendMessage calls reach the API in a run, and how many
\* callbacks of stopRecording wait at a time.
MaxSends == 1
\* How many minutes the clock advances in a run.
MaxTicks == 1

NoCurrentEvent == [t |-> "null", data |-> NullEvent, ics |-> <<>>]
CurrentEventOf(data, ics) == [t |-> "object", data |-> data, ics |-> ics]

\* What the user types: nothing, " hi".
InputTexts == { <<>>, <<32, 104, 105>> }
\* reader.result / the picker's data URI
Base64Audio == Str(<<100, 97, 116, 97, 58, 59, 98, 97, 115, 101, 54, 52, 44, 65, 65, 61, 61>>)   \* "data:;base64,AA=="
Base64Image == Str(<<100, 97, 116, 97, 58, 105, 109, 97, 103, 101, 47, 106, 112, 101, 103, 59, 98, 97, 115, 101, 54, 52, 44, 47, 57, 106, 47>>)   \* "data:image/jpeg;base64,/9j/"

\* The API's JSON (410): event fields at the top level, under calendar_event,
\* or neither.
NoCalendarEvent ==
  [t |-> "null", is_event |-> FALSE, event_data |-> NullEvent, ics_file |-> Undefined,
   requires_clarification |-> FALSE]
CalendarEventOf(data, ics) ==
  [t |-> "object", is_event |-> TRUE, event_data |-> data, ics_file |-> ics,
   requires_clarification |-> FALSE]
ResultOf(isEvent, data, ics, clarify, nested) ==
  [is_event |-> isEvent, event_data |-> data, ics_file |-> ics,
   requires_clarification |-> clarify, calendar_event |-> nested]

\* ics_file values the API sends: none, a well-formed payload of another
\* document, a truncated one, one outside the base64 alphabet.
ApiIcsFiles ==
  { Str(<<81, 107, 86, 72, 83, 85, 52, 54, 86, 107, 78, 66, 84, 69, 86, 79, 82, 69, 70, 83>>)   \* "QkVHSU46VkNBTEVOREFS"
  , Str(<<81, 107, 86, 72, 83, 85, 52, 54, 86, 107, 78, 66, 84, 69, 86, 79, 82>>)   \* "QkVHSU46VkNBTEVOR"
  , Str(<<64, 64, 110, 111, 116, 32, 98, 97, 115, 101, 54, 52, 64, 64>>)   \* "@@not base64@@"
  }

\* event_data values the API sends.
LowerCaseEvent ==
  EventOf(Str(<<116, 101, 97, 109, 32, 115, 121, 110, 99>>),   \* "team sync"
          BaseDate, BaseTime, Undefined, Undefined,
          Str(<<114, 111, 111, 109, 32, 52, 44, 32, 116, 104, 101, 32, 97, 110, 110, 101, 120>>),   \* "room 4, the annex"
          Undefined)
PlainEvent == EventOf(PlainTitle, BaseDate, BaseTime, Undefined, Undefined, Undefined, Undefined)

ApiEvents ==
  { LowerCaseEvent
  , PlainEvent
  , EventOf(Num(5), BaseDate, BaseTime, Undefined, Undefined, Undefined, Undefined)
  , EventOf(Undefined, Undefined, BaseTime, Undefined, Undefined, Str(<<>>), Undefined)
  , EventOf(Str(<<97, 32, 116, 114, 105, 112, 32, 116, 111, 32, 116, 104, 101, 32, 108, 97, 107, 101>>),   \* "a trip to the lake"
            Str(<<50, 48, 50, 52, 45, 49, 51, 45, 48, 53>>),   \* "2024-13-05"
            BaseTime, Undefined, Undefined, Undefined, Undefined)
  }

NotAnEvent == ResultOf(FALSE, NullEvent, Undefined, FALSE, NoCalendarEvent)

\* Events with no payload, an event with each payload, one that needs
\* clarification, one under calendar_event, one under calendar_event that
\* needs clarification, one with no data, and no event.
ApiResults ==
  { ResultOf(TRUE, data, Undefined, FALSE, NoCalendarEvent) : data \in ApiEvents }
  \cup { ResultOf(TRUE, LowerCaseEvent, ics, FALSE, NoCalendarEvent) : ics \in ApiIcsFiles }
  \cup { ResultOf(TRUE, PlainEvent, Undefined, TRUE, NoCalendarEvent)
       , ResultOf(FALSE, NullEvent, Undefined, FALSE,
                  CalendarEventOf(PlainEvent, CHOOSE ics \in ApiIcsFiles : Len(ics.v) % 4 = 0))
       , ResultOf(FALSE, NullEvent, Undefined, FALSE,
                  [CalendarEventOf(LowerCaseEvent, Undefined)
                     EXCEPT !.requires_clarification = TRUE])
       , ResultOf(TRUE, NullEvent, Undefined, FALSE, NoCalendarEvent)
       , NotAnEvent }

NoResult == [id |-> 0, body |-> NotAnEvent]

\* The props of the preview exported and whether sharing is available.  The
\* titles: the generated ones, the special ones, and titles with digits,
\* capitals, a space, dots and path separators; the payload: one of an API
\* answer, or one that is not base64.
ExportCalls ==
  LET ExportTitles ==
        Titles \cup { Str(<<46, 46, 47, 81, 51, 32, 112, 108, 97, 110, 46, 118, 50>>)   \* "../Q3 plan.v2"
                    , Str(<<97, 92, 98, 58, 99>>)   \* "a\b:c"
                    , Str(<<>>) }
  IN  { [eventData |-> EventOf(title, BaseDate, BaseTime, Undefined, Undefined, Undefined, Undefined),
         icsFile |-> ics.v, sharing |-> sharing] :
          title \in ExportTitles, ics \in ApiIcsFiles, sharing \in BOOLEAN }

\* The events the preview is asked to add: the voice placeholder's text
\* fields, every combination of the special text fields, of the start
\* fields, and of the end fields.
CalendarInputs ==
  { EventOf(title, BaseDate, BaseTime, Undefined, Undefined, loc, desc) :
      title \in SpecialTitles \cup {Str(<<>>), Str(CALENDAR_EVENT)},
      loc \in Locations, desc \in Descriptions \cup {Str(NONE_WORD)} }
    \cup { EventOf(PlainTitle, sd, st, Undefined, Undefined, Undefined, Undefined) :
             sd \in StartDates, st \in StartTimes }
    \cup { EventOf(PlainTitle, BaseDate, BaseTime, ed, et, Undefined, Undefined) :
             ed \in EndDates, et \in EndTimes }

\* What requestCalendarPermissionsAsync answers.
PermissionStatuses == {"granted", "denied", "undetermined"}

\* What getCalendarsAsync answers: no calendar, one that is not primary, a
\* primary one after another, a primary one that allows no modification
\* before one that does.
CalendarLists ==
  { <<>>
  , <<[t |-> "object", id |-> "1", isPrimary |-> FALSE, allowsModifications |-> TRUE]>>
  , << [t |-> "object", id |-> "1", isPrimary |-> FALSE, allowsModifications |-> TRUE],
       [t |-> "object", id |-> "2", isPrimary |-> TRUE, allowsModifications |-> TRUE] >>
  , << [t |-> "object", id |-> "1", isPrimary |-> TRUE, allowsModifications |-> FALSE],
       [t |-> "object", id |-> "2", isPrimary |-> FALSE, allowsModifications |-> TRUE] >>
  }

\* What createEventAsync answers: an identifier or none.
EventIds == {"", "event-1"}

NoCalendarRun ==
  [pc |-> "idle", status |-> "", asked |-> FALSE, calendars |-> <<>>, created |-> <<>>,
   eventId |-> "", alerts |-> <<>>]

\* The keys CryptoJS.lib.WordArray.random(256/8).toString() can give, and
\* a key an earlier run left in the SecureStore.
RandomKeys == {Str(<<54, 98, 51, 49>>), Str(<<54, 98, 51, 50>>)}
StoredKey == Str(<<54, 98, 51, 48>>)

\* The values handed to encrypt and encryptMessage: texts, texts that are
\* JSON themselves, numbers, booleans, null, undefined, objects.
CryptoValues ==
  { Str(<<104, 101, 108, 108, 111>>), Str(<<49, 50, 51>>), Str(<<116, 114, 117, 101>>), Str(<<123, 125>>), Str(<<110, 117, 108, 108>>),
    Str(<<34, 104, 105, 34>>), Str(<<32, 55, 32>>), Str(<<123, 34, 97, 34, 58, 49>>), Str(<<>>),
    Num(123), Num(0), Bool(TRUE), Bool(FALSE), Null, Undefined,
    Object(<<123, 125>>), Object(<<123, 34, 97, 34, 58, 49, 125>>) }

\* What the bytes decrypted with another key come to.
Noise == {Null, Str(<<>>), Str(<<1, 120>>)}

NothingEncrypted == [fn |-> "none", data |-> Undefined, encrypted |-> Undefined]
NothingDecrypted == [done |-> FALSE, key |-> Undefined, v |-> Undefined]

\* The singleton after getInstance(): encryptionKey = null (13).
ServiceCreated ==
  [encryptionKey |-> Null, stored |-> Null, pc |-> "idle", key |-> Null,
   slot |-> NothingEncrypted, out |-> NothingDecrypted]

\* useState initial values (80-86): user comes from useAuth.
HomeScreenMounted ==
  /\ inputText = <<>>
  /\ isLoading = FALSE
  /\ recording = FALSE
  /\ isRecording = FALSE
  /\ selectedImage = Undefined
  /\ audioData = Undefined
  /\ currentEvent = NoCurrentEvent
  /\ timers = <<>>
  /\ pending = {}
  /\ result = NoResult
  /\ sent = 0

\* The state a handler created in the current render reads.
Render ==
  [inputText |-> inputText, selectedImage |-> selectedImage, audioData |-> audioData,
   currentEvent |-> currentEvent, user |-> user]

(***************************************************************************)
(* SpecICS: generateICSFile as a function of its argument, and the decode  *)
(* of handleExportICS applied to what it returned.                         *)
(***************************************************************************)
InitICS ==
  /\ \E i \in 1..2 : platform = Platforms[i] /\ now = Instants[i]
  /\ eventData \in EventInputs
  /\ gen = NoGen
  /\ exported = NotExported
  /\ HomeScreenMounted
  /\ user = FALSE
  /\ call = NoCall /\ ret = NotReturned
  /\ calendar = NoCalendarRun
  /\ service = ServiceCreated

\* const icsFile = generateICSFile(eventData)
CallGenerateICSFile ==
  /\ ~gen.called
  /\ LET Called(r) == [called |-> TRUE, threw |-> r.threw, path |-> r.path,
                       text |-> r.text, payload |-> r.payload]
     IN  gen' = Called(generateICSFile(eventData, now, platform))
  /\ UNCHANGED <<platform, now, eventData, exported, homeVars, displayVars, deviceVars>>

\* handleExportICS (EventPreview.tsx 26-35) on that payload:
\* const icsContent = atob(icsFile); writeAsStringAsync(fileUri, icsContent)
ExportGenerated ==
  /\ gen.called /\ ~gen.threw
  /\ ~exported.done
  /\ LET Written(r) == [done |-> TRUE, ok |-> r.ok, text |-> r.text]
     IN  exported' = Written(atob(gen.payload))
  /\ UNCHANGED <<platform, now, eventData, gen, homeVars, displayVars, deviceVars>>

NextICS == CallGenerateICSFile \/ ExportGenerated

SpecICS == InitICS /\ [][NextICS]_vars

(***************************************************************************)
(* SpecDisplay: the display functions as functions of their argument:      *)
(* formatDate of EventPreview and capitalizeWords of the screen.           *)
(***************************************************************************)
InitDisplay ==
  /\ platform = Platforms[1] /\ now = Instants[1]
  /\ eventData = NullEvent
  /\ gen = NoGen
  /\ exported = NotExported
  /\ HomeScreenMounted
  /\ user = FALSE
  /\ call \in {[fn |-> "formatDate", arg |-> d] : d \in DateStrings}
              \cup {[fn |-> "capitalizeWords", arg |-> p] : p \in Phrases}
              \cup {[fn |-> "formatLocation", arg |-> l] : l \in LocationTexts}
              \cup {[fn |-> "handleExportICS", arg |-> c] : c \in ExportCalls}
  /\ ret = NotReturned
  /\ calendar = NoCalendarRun
  /\ service = ServiceCreated

\* {formatDate(eventData.start_date)}: the catch block returns the argument.
CallFormatDate ==
  /\ call.fn = "formatDate" /\ ~ret.returned
  /\ ret' = [returned |-> TRUE, threw |-> FALSE, v |-> formatDate(call.arg)]
  /\ UNCHANGED <<platform, now, icsVars, homeVars, deviceVars, call>>

\* capitalizeWords(eventData.event_title)  (index.tsx 439, 443)
CallCapitalizeWords ==
  /\ call.fn = "capitalizeWords" /\ ~ret.returned
  /\ ret' = IF capitalizeWordsThrows(call.arg)
            THEN [returned |-> TRUE, threw |-> TRUE, v |-> Undefined]
            ELSE [returned |-> TRUE, threw |-> FALSE, v |-> Str(capitalizeWords(call.arg))]
  /\ UNCHANGED <<platform, now, icsVars, homeVars, deviceVars, call>>

\* The location row of an event of the API: eventData.location =
\* capitalizeWords(eventData.location) (index.tsx 442-444), then
\* {eventData.location && ... formatLocation(eventData.location)}
\* (EventPreview.tsx 226-231); no row for a falsy location.
CallFormatLocation ==
  /\ call.fn = "formatLocation" /\ ~ret.returned
  /\ LET Row(location) ==
           [returned |-> TRUE, threw |-> FALSE,
            v |-> IF Truthy(location) THEN Str(formatLocation(location)) ELSE Undefined]
     IN  ret' = IF capitalizeWordsThrows(call.arg)
                THEN [returned |-> TRUE, threw |-> TRUE, v |-> Undefined]
                ELSE Row(IF Truthy(call.arg) THEN Str(capitalizeWords(call.arg))
                         ELSE call.arg)
  /\ UNCHANGED <<platform, now, icsVars, homeVars, deviceVars, call>>

\* onPress={handleExportICS} (247).
CallHandleExportICS ==
  /\ call.fn = "handleExportICS" /\ ~ret.returned
  /\ ret' = [returned |-> TRUE, threw |-> FALSE,
             v |-> handleExportICS(call.arg.eventData, call.arg.icsFile, call.arg.sharing)]
  /\ UNCHANGED <<platform, now, icsVars, homeVars, deviceVars, call>>

NextDisplay ==
  \/ CallFormatDate
  \/ CallCapitalizeWords
  \/ CallFormatLocation
  \/ CallHandleExportICS

SpecDisplay == InitDisplay /\ [][NextDisplay]_vars

(***************************************************************************)
(* SpecCalendar: handleAddToCalendar (EventPreview.tsx 54-127) on the      *)
(* preview of eventData, one action per await.                             *)
(***************************************************************************)
InitCalendar ==
  /\ \E i \in 1..Len(Platforms) : platform = Platforms[i] /\ now = Instants[i]
  /\ eventData \in CalendarInputs
  /\ gen = NoGen
  /\ exported = NotExported
  /\ HomeScreenMounted
  /\ user = FALSE
  /\ call = NoCall /\ ret = NotReturned
  /\ calendar = NoCalendarRun
  /\ service = ServiceCreated

\* The catch block (123-126).
CalendarFailed ==
  [calendar EXCEPT !.pc = "done",
                   !.alerts = Append(@, "Failed to add event to calendar")]

\* onPress={handleAddToCalendar} (242): up to the first await (57).
PressAddToCalendar ==
  /\ calendar.pc = "idle"
  /\ calendar' = [calendar EXCEPT !.pc = "requestCalendarPermissionsAsync"]
  /\ UNCHANGED <<platform, now, icsVars, homeVars, displayVars, service>>

\* Lines 57-65: the permission is answered, or the request is rejected.
PermissionAnswered ==
  /\ calendar.pc = "requestCalendarPermissionsAsync"
  /\ \/ \E status \in PermissionStatuses :
          calendar' =
            IF status # "granted"
            THEN [calendar EXCEPT
                    !.status = status, !.pc = "done",
                    !.alerts = Append(@, "Calendar permission is required to add events")]
            ELSE [calendar EXCEPT !.status = status, !.pc = "getCalendarsAsync"]
     \/ calendar' = CalendarFailed
  /\ UNCHANGED <<platform, now, icsVars, homeVars, displayVars, service>>

\* Lines 65-111: the calendars are answered, or the request is rejected;
\* with a calendar the dates are computed and createEventAsync is called.
CalendarsAnswered ==
  /\ calendar.pc = "getCalendarsAsync"
  /\ \/ \E calendars \in CalendarLists :
          LET Found(target) ==
                IF ~Truthy(target)
                THEN [calendar EXCEPT
                        !.asked = TRUE, !.calendars = calendars, !.pc = "done",
                        !.alerts = Append(@, "No calendar found to add this event")]
                ELSE IF handleAddToCalendarThrows(eventData)
                THEN [CalendarFailed EXCEPT !.asked = TRUE, !.calendars = calendars]
                ELSE [calendar EXCEPT
                        !.asked = TRUE, !.calendars = calendars,
                        !.pc = "createEventAsync",
                        !.created = Append(@, [calendarId |-> target.id,
                                               details |-> eventDetails(eventData, now,
                                                                        platform.tz)])]
          IN  calendar' = Found(defaultCalendar(calendars))
     \/ calendar' = CalendarFailed
  /\ UNCHANGED <<platform, now, icsVars, homeVars, displayVars, service>>

\* Lines 111-122: createEventAsync answers an identifier, or is rejected.
EventCreated ==
  /\ calendar.pc = "createEventAsync"
  /\ \/ \E eventId \in EventIds :
          calendar' =
            [calendar EXCEPT
               !.pc = "done", !.eventId = eventId,
               !.alerts = IF eventId # "" THEN Append(@, "Event added to your calendar")
                          ELSE @]
     \/ calendar' = CalendarFailed
  /\ UNCHANGED <<platform, now, icsVars, homeVars, displayVars, service>>

NextCalendar ==
  \/ PressAddToCalendar
  \/ PermissionAnswered
  \/ CalendarsAnswered
  \/ EventCreated

SpecCalendar == InitCalendar /\ [][NextCalendar]_vars

(***************************************************************************)
(* SpecEncryption: the EncryptionService singleton: initialize() with one  *)
(* action per await, encrypt / encryptMessage of a value and decrypt /     *)
(* decryptMessage of what they returned, in any order.                     *)
(***************************************************************************)
InitEncryption ==
  /\ platform = Platforms[1] /\ now = Instants[1]
  /\ eventData = NullEvent
  /\ gen = NoGen
  /\ exported = NotExported
  /\ HomeScreenMounted
  /\ user = FALSE
  /\ call = NoCall /\ ret = NotReturned
  /\ calendar = NoCalendarRun
  /\ service \in {ServiceCreated, [ServiceCreated EXCEPT !.stored = StoredKey]}

\* initialize() up to its first await (35).
CallInitialize ==
  /\ service.pc = "idle"
  /\ service' = [service EXCEPT !.pc = "getItemAsync"]
  /\ UNCHANGED <<platform, now, icsVars, homeVars, displayVars, calendar>>

\* Lines 35-48: getItemAsync answers the stored item, or is rejected.  With
\* no item a key is generated and setItemAsync awaited.
GetItemAnswered ==
  /\ service.pc = "getItemAsync"
  /\ \/ /\ ~Falsy(service.stored)
        /\ service' = [service EXCEPT !.encryptionKey = service.stored, !.pc = "idle"]
     \/ /\ Falsy(service.stored)
        /\ \E key \in RandomKeys :
             service' = [service EXCEPT !.key = key, !.pc = "setItemAsync"]
     \/ service' = [service EXCEPT !.encryptionKey = DEFAULT_KEY, !.pc = "idle"]
  /\ UNCHANGED <<platform, now, icsVars, homeVars, displayVars, calendar>>

\* Lines 41-48: setItemAsync has stored the key, or is rejected.
SetItemAnswered ==
  /\ service.pc = "setItemAsync"
  /\ \/ service' = [service EXCEPT !.stored = service.key,
                                   !.encryptionKey = service.key, !.pc = "idle"]
     \/ service' = [service EXCEPT !.encryptionKey = DEFAULT_KEY, !.pc = "idle"]
  /\ UNCHANGED <<platform, now, icsVars, homeVars, displayVars, calendar>>

\* encrypt(data)
CallEncrypt ==
  /\ service.slot.fn = "none"
  /\ \E data \in CryptoValues :
       service' = [service EXCEPT
                     !.slot = [fn |-> "encrypt", data |-> data,
                               encrypted |-> encrypt(data, service.encryptionKey)]]
  /\ UNCHANGED <<platform, now, icsVars, homeVars, displayVars, calendar>>

\* encryptMessage(message)
CallEncryptMessage ==
  /\ service.slot.fn = "none"
  /\ \E message \in CryptoValues :
       service' = [service EXCEPT
                     !.slot = [fn |-> "encryptMessage", data |-> message,
                               encrypted |-> encryptMessage(message, service.encryptionKey)]]
  /\ UNCHANGED <<platform, now, icsVars, homeVars, displayVars, calendar>>

\* decrypt(encryptedData) of what encrypt returned.
CallDecrypt ==
  /\ service.slot.fn = "encrypt" /\ ~service.out.done
  /\ \E noise \in Noise :
       service' = [service EXCEPT
                     !.out = [done |-> TRUE, key |-> getKey(service.encryptionKey),
                              v |-> decrypt(service.slot.encrypted, service.encryptionKey,
                                            noise)]]
  /\ UNCHANGED <<platform, now, icsVars, homeVars, displayVars, calendar>>

\* decryptMessage(message) of what encryptMessage returned.
CallDecryptMessage ==
  /\ service.slot.fn = "encryptMessage" /\ ~service.out.done
  /\ \E noise \in Noise :
       service' = [service EXCEPT
                     !.out = [done |-> TRUE, key |-> getKey(service.encryptionKey),
                              v |-> decryptMessage(service.slot.encrypted,
                                                   service.encryptionKey, noise)]]
  /\ UNCHANGED <<platform, now, icsVars, homeVars, displayVars, calendar>>

NextEncryption ==
  \/ CallInitialize
  \/ GetItemAnswered
  \/ SetItemAnswered
  \/ CallEncrypt
  \/ CallEncryptMessage
  \/ CallDecrypt
  \/ CallDecryptMessage

SpecEncryption == InitEncryption /\ [][NextEncryption]_vars

(***************************************************************************)
(* handleSendMessage (331-490), in the render r with argument              *)
(* audioDataParam.                                                         *)
(***************************************************************************)
AudioToSend(r, audioDataParam) ==
  IF Truthy(audioDataParam) THEN audioDataParam ELSE r.audioData

\* Lines 335-336.
ReturnsEarly(r, audioDataParam) ==
  \/ /\ trim(r.inputText) = <<>>
     /\ ~Truthy(r.selectedImage)
     /\ ~Truthy(AudioToSend(r, audioDataParam))
  \/ ~r.user

\* Line 341.
IsVoiceMessage(r, audioDataParam) ==
  Truthy(AudioToSend(r, audioDataParam)) /\ trim(r.inputText) = <<>>

\* Lines 331-404, up to the fetch.
handleSendMessage(r, audioDataParam) ==
  IF ReturnsEarly(r, audioDataParam)
  THEN UNCHANGED <<inputText, isLoading, selectedImage, audioData, currentEvent,
                   pending, sent>>
  ELSE /\ isLoading' = TRUE
       /\ currentEvent' = IF ~IsVoiceMessage(r, audioDataParam) THEN NoCurrentEvent
                          ELSE currentEvent
       /\ inputText' = <<>>
       /\ selectedImage' = Undefined
       /\ audioData' = Undefined
       /\ sent' = sent + 1
       /\ pending' = pending \cup
            {[id |-> sent + 1, isVoiceMessage |-> IsVoiceMessage(r, audioDataParam),
              currentEvent |-> r.currentEvent]}

\* The flag of the top level only.
RequiresClarificationAtTopLevel(body) == body.requires_clarification

\* Lines 429-431: a || b over the two places a field can be.
IsEvent(body) ==
  body.is_event \/ (body.calendar_event.t # "null" /\ body.calendar_event.is_event)
EventDataOf(body) ==
  IF body.event_data.t # "null" THEN body.event_data
  ELSE IF body.calendar_event.t # "null" THEN body.calendar_event.event_data
  ELSE NullEvent
IcsFileOf(body) ==
  IF Truthy(body.ics_file) THEN body.ics_file
  ELSE IF body.calendar_event.t # "null" THEN body.calendar_event.ics_file
  ELSE Undefined
RequiresClarification(body) ==
  body.requires_clarification
    \/ (body.calendar_event.t # "null" /\ body.calendar_event.requires_clarification)

\* Lines 438-444: the title and the location are rewritten in place.
Capitalize(data) ==
  [data EXCEPT
     !.event_title = IF Truthy(@) THEN Str(capitalizeWords(@)) ELSE @,
     !.location = IF Truthy(@) THEN Str(capitalizeWords(@)) ELSE @]

\* The payload generated from the event_data as received, before the title
\* and the location are rewritten.
CurrentEventFromRawData(q, body, cur, clock, p) ==
  LET After(data, capitalized, icsFile) ==
        IF IsEvent(body)
        THEN IF data.t # "null" /\ ~RequiresClarification(body)
             THEN IF \/ capitalizeWordsThrows(data.event_title)
                     \/ capitalizeWordsThrows(data.location)
                     \/ icsFile.threw
                  THEN cur
                  ELSE CurrentEventOf(capitalized, icsFile.payload)
             ELSE cur
        ELSE IF q.isVoiceMessage /\ q.currentEvent.t # "null" THEN cur
        ELSE NoCurrentEvent
      Handle(data) == After(data, Capitalize(data), generateICSFile(data, clock, p))
  IN  Handle(EventDataOf(body))

\* The API's ics_file handed on when there is one, a payload generated only
\* when there is none.
CurrentEventTrustingApi(q, body, cur, clock, p) ==
  LET After(data, capitalized, icsFile) ==
        IF IsEvent(body)
        THEN IF data.t # "null" /\ ~RequiresClarification(body)
             THEN IF \/ capitalizeWordsThrows(data.event_title)
                     \/ capitalizeWordsThrows(data.location)
                     \/ icsFile.threw
                  THEN cur
                  ELSE CurrentEventOf(capitalized,
                                      IF Truthy(IcsFileOf(body)) THEN IcsFileOf(body).v
                                      ELSE icsFile.payload)
             ELSE cur
        ELSE IF q.isVoiceMessage /\ q.currentEvent.t # "null" THEN cur
        ELSE NoCurrentEvent
      Handle(data, capitalized) ==
        After(data, capitalized, generateICSFile(capitalized, clock, p))
      Read(data) == Handle(data, Capitalize(data))
  IN  Read(EventDataOf(body))

\* Lines 416-478: the value of currentEvent after the answer `body` to the
\* call q; an exception (capitalizeWords of a value that is not a string,
\* generateICSFile throwing) leaves for the catch block with no update.
CurrentEventAfter(q, body, cur, clock, p) ==
  LET After(data, capitalized, icsFile) ==
        IF IsEvent(body)
        THEN IF data.t # "null" /\ ~RequiresClarification(body)
             THEN IF \/ capitalizeWordsThrows(data.event_title)
                     \/ capitalizeWordsThrows(data.location)
                     \/ icsFile.threw
                  THEN cur
                  ELSE CurrentEventOf(capitalized, icsFile.payload)
             ELSE cur
        ELSE IF q.isVoiceMessage /\ q.currentEvent.t # "null" THEN cur
        ELSE NoCurrentEvent
      Handle(data, capitalized) ==
        After(data, capitalized, generateICSFile(capitalized, clock, p))
      Read(data) == Handle(data, Capitalize(data))
  IN  Read(EventDataOf(body))

(***************************************************************************)
(* Spec: the screen's handlers.                                            *)
(***************************************************************************)
Init ==
  /\ \E i \in 1..Len(Platforms) : platform = Platforms[i] /\ now = Instants[i]
  /\ eventData = NullEvent
  /\ gen = NoGen
  /\ exported = NotExported
  /\ HomeScreenMounted
  /\ user \in BOOLEAN
  /\ call = NoCall /\ ret = NotReturned
  /\ calendar = NoCalendarRun
  /\ service = ServiceCreated

\* The clock advances by a minute.
Tick ==
  /\ \E i \in 1..Len(Platforms) :
       platform = Platforms[i] /\ now.min < Instants[i].min + MaxTicks
  /\ now' = [now EXCEPT !.min = @ + 1]
  /\ UNCHANGED <<platform, icsVars, displayVars, deviceVars, homeVars>>

\* onChangeText={setInputText} (709-717), not editable while recording.
SetInputText ==
  /\ ~isRecording
  /\ \E text \in InputTexts \ {inputText} : inputText' = text
  /\ UNCHANGED <<platform, now, icsVars, displayVars, deviceVars, isLoading, recording, isRecording, selectedImage,
                 audioData, currentEvent, user, timers, pending, result, sent>>

\* pickImage / takePhoto (283-311) with a picture chosen.
PickImage ==
  /\ selectedImage = Undefined
  /\ selectedImage' = Base64Image
  /\ UNCHANGED <<platform, now, icsVars, displayVars, deviceVars, inputText, isLoading, recording, isRecording,
                 audioData, currentEvent, user, timers, pending, result, sent>>

\* startRecording (165-204) when not recording; the microphone is enabled
\* while a request is pending.
StartRecording ==
  /\ ~isRecording
  /\ Len(timers) < MaxSends
  /\ recording' = TRUE
  /\ isRecording' = TRUE
  /\ UNCHANGED <<platform, now, icsVars, displayVars, deviceVars, inputText, isLoading, selectedImage, audioData,
                 currentEvent, user, timers, pending, result, sent>>

\* Lines 242-254: the placeholder event of a recording stopped at `clock`.
tempEventData(clock, tz) ==
  LET today == LocalFields(NewDate(clock), tz)
      hour == today.hours
      endHour == IF hour + 1 > 23 THEN 23 ELSE hour + 1
  IN  EventOf(Str(CALENDAR_EVENT),
              Str(NumberToString(today.year) \o <<45>> \o padStart2(NumberToString(today.month))
                    \o <<45>> \o padStart2(NumberToString(today.day))),
              Str(padStart2(NumberToString(hour)) \o <<58, 48, 48>>),      \* ":00"
              Undefined,
              Str(padStart2(NumberToString(endHour)) \o <<58, 48, 48>>),
              Str(NONE_WORD), Str(NONE_WORD))

\* stopRecording (207-274) with the recording read: the send button or the
\* microphone pressed while recording.  The callback is queued with the
\* render it closes over.
StopRecording ==
  /\ recording
  /\ isRecording' = FALSE
  /\ audioData' = Base64Audio
  /\ LET Placeholder(data, icsFile) ==
           /\ ~icsFile.threw
           /\ currentEvent' = CurrentEventOf(data, icsFile.payload)
         Generate(data) == Placeholder(data, generateICSFile(data, now, platform))
     IN  Generate(tempEventData(now, platform.tz))
  /\ timers' = Append(timers, [render |-> Render, setAt |-> now])
  /\ recording' = FALSE
  /\ UNCHANGED <<platform, now, icsVars, displayVars, deviceVars, inputText, isLoading, selectedImage, user,
                 pending, result, sent>>

\* stopRecording with no URI (222-226) or with the read failing (275-279).
StopRecordingWithoutData ==
  /\ recording
  /\ isRecording' = FALSE
  /\ recording' = FALSE
  /\ UNCHANGED <<platform, now, icsVars, displayVars, deviceVars, inputText, isLoading, selectedImage, audioData,
                 currentEvent, user, timers, pending, result, sent>>

\* setTimeout(() => handleSendMessage(base64data), 300)  (268-270): the
\* callback runs once the clock has passed the instant it was queued at.
TimerFires ==
  /\ timers # <<>>
  /\ Head(timers).setAt # now
  /\ sent < MaxSends
  /\ timers' = Tail(timers)
  /\ handleSendMessage(Head(timers).render, Base64Audio)
  /\ UNCHANGED <<platform, now, icsVars, displayVars, deviceVars, recording, isRecording, user, result>>

\* onPress={... () => handleSendMessage()} (724-725): the button is disabled
\* with nothing to send and while loading.
PressSend ==
  /\ ~isRecording
  /\ ~isLoading
  /\ trim(inputText) # <<>> \/ Truthy(selectedImage) \/ Truthy(audioData)
  /\ sent < MaxSends
  /\ handleSendMessage(Render, Undefined)
  /\ UNCHANGED <<platform, now, icsVars, displayVars, deviceVars, recording, isRecording, user, timers, result>>

\* The API answers a call (410-481, 487-489).
ReceiveResult ==
  \E q \in pending, body \in ApiResults :
    /\ pending' = pending \ {q}
    /\ result' = [id |-> q.id, body |-> body]
    /\ currentEvent' = CurrentEventAfter(q, body, currentEvent, now, platform)
    /\ isLoading' = FALSE
    /\ UNCHANGED <<platform, now, icsVars, displayVars, deviceVars, inputText, recording, isRecording,
                   selectedImage, audioData, user, timers, sent>>

\* The request fails or the answer is not ok (406-408, 482-489).
RequestFails ==
  \E q \in pending :
    /\ pending' = pending \ {q}
    /\ isLoading' = FALSE
    /\ UNCHANGED <<platform, now, icsVars, displayVars, deviceVars, inputText, recording, isRecording,
                   selectedImage, audioData, currentEvent, user, timers, result, sent>>

Next ==
  \/ Tick
  \/ SetInputText
  \/ PickImage
  \/ StartRecording
  \/ StopRecording
  \/ StopRecordingWithoutData
  \/ TimerFires
  \/ PressSend
  \/ ReceiveResult
  \/ RequestFails

Spec == Init /\ [][Next]_vars

(***************************************************************************)
(* Reading a document and the input fields, for the properties below.      *)
(* These are written apart from the Date model above: dates are compared   *)
(* by their decimal fields and the hour is added with a month-length       *)
(* table.                                                                  *)
(***************************************************************************)
\* The lines of a text: the pieces between CRLF pairs.
Breaks(text) == {i \in 1..(Len(text) - 1) : text[i] = 13 /\ text[i + 1] = 10}

LinesOf(text) ==
  LET bs == Breaks(text)
      n == Cardinality(bs)
      nth(j) == CHOOSE b \in bs : Cardinality({x \in bs : x < b}) = j - 1
  IN  [j \in 1..(n + 1) |->
         SubSeq(text, IF j = 1 THEN 1 ELSE nth(j - 1) + 2,
                      IF j = n + 1 THEN Len(text) ELSE nth(j) - 1)]

HasPrefix(l, pre) == Len(l) >= Len(pre) /\ SubSeq(l, 1, Len(pre)) = pre

\* The values of the lines that start with pre, in order.
ValuesOf(text, pre) ==
  LET ls == SelectSeq(LinesOf(text), LAMBDA l : HasPrefix(l, pre))
  IN  [j \in 1..Len(ls) |-> SubSeq(ls[j], Len(pre) + 1, Len(ls[j]))]

AllDigits(x) == x # <<>> /\ \A i \in 1..Len(x) : IsDigit(x[i])

\* An instant printed as <date digits>T<time digits>Z, as two numbers.
IsStamp(v) ==
  /\ Len(v) >= 3 /\ v[Len(v)] = 90 /\ IndexOf(v, 84) > 1
  /\ AllDigits(SubSeq(v, 1, IndexOf(v, 84) - 1))
  /\ AllDigits(SubSeq(v, IndexOf(v, 84) + 1, Len(v) - 1))

StampOf(v) ==
  [date |-> DigitsValue(SubSeq(v, 1, IndexOf(v, 84) - 1), 0),
   time |-> DigitsValue(SubSeq(v, IndexOf(v, 84) + 1, Len(v) - 1), 0)]

Later(a, b) == a.date > b.date \/ (a.date = b.date /\ a.time > b.time)

\* The document has one DTSTART and one DTEND line, both instants.
HasInstants(text) ==
  /\ Len(ValuesOf(text, DTSTART_PREFIX)) = 1 /\ IsStamp(ValuesOf(text, DTSTART_PREFIX)[1])
  /\ Len(ValuesOf(text, DTEND_PREFIX)) = 1 /\ IsStamp(ValuesOf(text, DTEND_PREFIX)[1])

DTSTART == ValuesOf(gen.text, DTSTART_PREFIX)[1]
DTEND == ValuesOf(gen.text, DTEND_PREFIX)[1]

\* A field that is present: a non-empty string.
Present(v) == v.t = "string" /\ v.v # <<>>

\* The numbers of a field whose components are all decimal digits.
Components(v, ch) ==
  LET parts == split(v.v, ch)
  IN  [ok |-> \A i \in 1..Len(parts) : AllDigits(parts[i]),
       n |-> [i \in 1..Len(parts) |-> DigitsValue(parts[i], 0)]]

\* Numeric and in the ranges month 1..12, day 1..31, hour 0..23, minute 0..59.
InRangeDate(v) ==
  /\ Present(v) /\ Components(v, 45).ok /\ Len(Components(v, 45).n) = 3
  /\ Components(v, 45).n[2] \in 1..12 /\ Components(v, 45).n[3] \in 1..31

InRangeTime(v) ==
  /\ Present(v) /\ Components(v, 58).ok /\ Len(Components(v, 58).n) = 2
  /\ Components(v, 58).n[1] \in 0..23 /\ Components(v, 58).n[2] \in 0..59

IsLeapYear(y) == y % 4 = 0 /\ (y % 100 # 0 \/ y % 400 = 0)

DaysInMonth(y, m) ==
  CASE m \in {4, 6, 9, 11} -> 30
    [] m = 2 -> (IF IsLeapYear(y) THEN 29 ELSE 28)
    [] OTHER -> 31

\* A day of the calendar in a year of four digits.
IsCalendarDate(v) ==
  /\ InRangeDate(v)
  /\ Components(v, 45).n[1] \in 1000..9999
  /\ Components(v, 45).n[3] <= DaysInMonth(Components(v, 45).n[1], Components(v, 45).n[2])

TwoDigits(n) == <<48 + (n \div 10), 48 + (n % 10)>>
FourDigits(n) == TwoDigits(n \div 100) \o TwoDigits(n % 100)

StampText(y, m, d, h, mi) ==
  FourDigits(y) \o TwoDigits(m) \o TwoDigits(d) \o <<84>> \o TwoDigits(h) \o TwoDigits(mi)
    \o <<48, 48, 90>>

\* The date field and the time field written as one instant.
At(date, time) ==
  StampText(Components(date, 45).n[1], Components(date, 45).n[2], Components(date, 45).n[3],
            Components(time, 58).n[1], Components(time, 58).n[2])

\* The instant sixty minutes after a calendar date and a clock time.
OneHourAfter(date, time) ==
  LET y == Components(date, 45).n[1]
      m == Components(date, 45).n[2]
      d == Components(date, 45).n[3]
      h == Components(time, 58).n[1]
      mi == Components(time, 58).n[2]
  IN  IF h < 23 THEN StampText(y, m, d, h + 1, mi)
      ELSE IF d < DaysInMonth(y, m) THEN StampText(y, m, d + 1, 0, mi)
      ELSE IF m < 12 THEN StampText(y, m + 1, 1, 0, mi)
      ELSE StampText(y + 1, 1, 1, 0, mi)

\* A text field generateICSFile can format: absent, a string, or falsy.
UsableText(v) == v.t \in {"undefined", "string"} \/ ~Truthy(v)

\* The end fields the code reads are well formed: no end_time (end_date is
\* then not read), or an end_time that is a clock time with no end_date or
\* with one that satisfies dateOk.
EndFieldsOk(e, dateOk(_)) ==
  \/ ~Truthy(e.end_time)
  \/ /\ Present(e.end_time) /\ InRangeTime(e.end_time)
     /\ (~Truthy(e.end_date) \/ (Present(e.end_date) /\ dateOk(e.end_date)))

\* The call under test was made on an object whose start is a calendar date
\* and a clock time, whose end fields are well formed, and whose text fields
\* can be formatted.
ValidEvent ==
  /\ gen.called /\ eventData.t = "object"
  /\ IsCalendarDate(eventData.start_date) /\ InRangeTime(eventData.start_time)
  /\ EndFieldsOk(eventData, IsCalendarDate)
  /\ UsableText(eventData.event_title) /\ UsableText(eventData.location)
  /\ UsableText(eventData.description)

\* The same with every component only in its range (day 1..31 in any month).
InRangeEvent ==
  /\ gen.called /\ eventData.t = "object"
  /\ InRangeDate(eventData.start_date) /\ InRangeTime(eventData.start_time)
  /\ EndFieldsOk(eventData, InRangeDate)
  /\ UsableText(eventData.event_title) /\ UsableText(eventData.location)
  /\ UsableText(eventData.description)

(***************************************************************************)
(* Properties of generateICSFile, checked under SpecICS.                   *)
(***************************************************************************)

\* C1 (as claimed): whatever document generateICSFile encoded, on the btoa
\* path and on the path of safeBtoa's own loop, and whatever its length
\* modulo 3, the text handleExportICS decodes with atob is that document.
C1_RoundTrip ==
  exported.done => (exported.ok /\ exported.text = gen.text)

\* C3 (as claimed): in every document with DTSTART and DTEND the end instant
\* is strictly later than the start instant, whatever end_date / end_time
\* were supplied.
C3_EndAfterStart ==
  (gen.called /\ HasInstants(gen.text)) => Later(StampOf(DTEND), StampOf(DTSTART))

\* C4: end-instant resolution for a start that is a calendar date and a clock
\* time: (1) end_date and end_time both present, a calendar date and a clock
\* time: DTEND is end_date at end_time; (2) only end_time present, a clock
\* time: DTEND is start_date at end_time; (3) neither present: DTEND is the
\* start plus sixty minutes, passing into the next day, month or year.
C4_EndResolution ==
  ValidEvent =>
    /\ gen.path = "try" /\ HasInstants(gen.text)
    /\ (Present(eventData.end_date) /\ Present(eventData.end_time))
       => DTEND = At(eventData.end_date, eventData.end_time)
    /\ (~Truthy(eventData.end_date) /\ Present(eventData.end_time))
       => DTEND = At(eventData.start_date, eventData.end_time)
    /\ (~Truthy(eventData.end_date) /\ ~Truthy(eventData.end_time))
       => DTEND = OneHourAfter(eventData.start_date, eventData.start_time)

\* C4's case: no end fields and a start at 23:30 on the last day of a year, so
\* that the added hour passes into the next year.
C4_Witness ==
  /\ ValidEvent
  /\ ~Truthy(eventData.end_date) /\ ~Truthy(eventData.end_time)
  /\ Components(eventData.start_time, 58).n = <<23, 30>>
  /\ Components(eventData.start_date, 45).n = <<2023, 12, 31>>
  /\ DTEND = StampText(2024, 1, 1, 0, 30)

\* C5 (as claimed): when the end the supplied end fields give is not later
\* than the start, the emitted end is the start plus one hour.
SuppliedEndNotLater ==
  /\ ValidEvent /\ Present(eventData.end_time)
  /\ \/ /\ ~Truthy(eventData.end_date)
        /\ ~Later(StampOf(At(eventData.start_date, eventData.end_time)),
                  StampOf(At(eventData.start_date, eventData.start_time)))
     \/ /\ Present(eventData.end_date)
        /\ ~Later(StampOf(At(eventData.end_date, eventData.end_time)),
                  StampOf(At(eventData.start_date, eventData.start_time)))

C5_NonMonotonicFallsBack ==
  SuppliedEndNotLater =>
    (HasInstants(gen.text) /\ DTEND = OneHourAfter(eventData.start_date, eventData.start_time))

\* C6: generateICSFile never fails outward: for every eventData (null, fields
\* absent, fields that are not strings) the call returns a payload and throws
\* nothing, and when start_date or start_time is absent or empty it returned
\* from its catch block, the document it encoded being the fallback document.
C6_NeverFailsOutward ==
  gen.called =>
    /\ ~gen.threw
    /\ gen.path \in {"try", "catch"}
    /\ gen.payload # <<>>
    /\ (eventData.t = "null" \/ ~Truthy(eventData.start_date)
          \/ ~Truthy(eventData.start_time))
       => (gen.path = "catch" /\ gen.text = FALLBACK_ICS)

\* C6's case: eventData is null on a runtime without btoa, where the catch
\* block's own call of btoa throws as well.
C6_Witness ==
  gen.called /\ eventData.t = "null" /\ ~platform.hasBtoa /\ gen.path = "catch"

\* C7 (as claimed): a component of start_date, start_time, end_date or
\* end_time that is non-numeric or out of range makes generateICSFile return
\* the fallback document.
BadField(v, inRange) == Present(v) /\ ~inRange

C7_InvalidFormatFallsBack ==
  ( /\ gen.called /\ eventData.t = "object"
    /\ \/ BadField(eventData.start_date, InRangeDate(eventData.start_date))
       \/ BadField(eventData.start_time, InRangeTime(eventData.start_time))
       \/ BadField(eventData.end_date, InRangeDate(eventData.end_date))
       \/ BadField(eventData.end_time, InRangeTime(eventData.end_time)) )
  => (gen.path = "catch" /\ gen.text = FALLBACK_ICS)

\* C8 (as claimed): the fallback document describes an event with a start
\* instant, an end instant sixty minutes later, the title "Calendar Event"
\* and no location or description line.
C8_FallbackIsOneHourEvent ==
  (gen.called /\ gen.path = "catch") =>
    /\ HasInstants(gen.text)
    /\ ValuesOf(gen.text, SUMMARY_PREFIX) = <<CALENDAR_EVENT>>
    /\ ValuesOf(gen.text, LOCATION_PREFIX) = <<>>
    /\ ValuesOf(gen.text, DESCRIPTION_PREFIX) = <<>>

\* C9 (as claimed): every document generateICSFile produces is the fixed line
\* sequence BEGIN:VCALENDAR, VERSION, PRODID, CALSCALE, METHOD, BEGIN:VEVENT,
\* UID, DTSTAMP, DTSTART, DTEND, SUMMARY, optional LOCATION, optional
\* DESCRIPTION, END:VEVENT, END:VCALENDAR.
FixedLineSequence(ls) ==
  /\ Len(ls) \in 13..15
  /\ ls[1] = BEGIN_VCALENDAR /\ ls[2] = VERSION_LINE /\ ls[3] = PRODID_LINE
  /\ ls[4] = CALSCALE_LINE /\ ls[5] = METHOD_LINE /\ ls[6] = BEGIN_VEVENT
  /\ HasPrefix(ls[7], SubSeq(UID_PREFIX, 1, 4)) /\ HasPrefix(ls[8], DTSTAMP_PREFIX)
  /\ HasPrefix(ls[9], DTSTART_PREFIX) /\ HasPrefix(ls[10], DTEND_PREFIX)
  /\ HasPrefix(ls[11], SUMMARY_PREFIX)
  /\ ls[Len(ls) - 1] = END_VEVENT /\ ls[Len(ls)] = END_VCALENDAR
  /\ Len(ls) = 14 => (HasPrefix(ls[12], LOCATION_PREFIX) \/ HasPrefix(ls[12], DESCRIPTION_PREFIX))
  /\ Len(ls) = 15 => (HasPrefix(ls[12], LOCATION_PREFIX) /\ HasPrefix(ls[13], DESCRIPTION_PREFIX))

C9_FixedLineSequence ==
  gen.called => FixedLineSequence(LinesOf(gen.text))

Handled == result' # result
\* The answer last handled is an event with event_data and needs no
\* clarification.
AnswersWithEvent(body) ==
  IsEvent(body) /\ EventDataOf(body).t # "null" /\ ~RequiresClarification(body)
\* The payloads the API sent.
ApiPayloads == {ics.v : ics \in ApiIcsFiles}

LoopEncodedBytes ==
  /\ gen.called /\ ~gen.threw
  /\ btoaThrows(gen.text, platform.hasBtoa)
  /\ \A i \in 1..Len(gen.text) : gen.text[i] <= 255

\* The last n characters of s.
Last(s, n) == SubSeq(s, Len(s) - n + 1, Len(s))

\* C11 (as claimed): the output of safeBtoa's loop has a length that is a
\* multiple of 4, ends with "==" when the input length mod 3 is 1, with one
\* '=' when it is 2 and with no '=' when it is 0, and is the standard base64
\* encoding of the input.
C11_LoopIsStandardBase64 ==
  LoopEncodedBytes =>
    /\ Len(gen.payload) % 4 = 0
    /\ Len(gen.text) % 3 = 1 => Last(gen.payload, 2) = <<61, 61>>
    /\ Len(gen.text) % 3 = 2 => (Last(gen.payload, 1) = <<61>> /\ Last(gen.payload, 2) # <<61, 61>>)
    /\ Len(gen.text) % 3 = 0 => Last(gen.payload, 1) # <<61>>
    /\ gen.payload = btoa(gen.text)

\* The call under test returned the document of its try block.
Generated == gen.called /\ ~gen.threw /\ gen.path = "try"

\* The value of the one line of the document that starts with pre, <<>> when
\* there is no such line.
ValueOf(pre) ==
  IF Len(ValuesOf(gen.text, pre)) = 1 THEN ValuesOf(gen.text, pre)[1] ELSE <<>>

\* A text field that is emitted as text: a string other than "", "None" and
\* "Not specified".
Emitted(v) == Present(v) /\ v.v # NONE_WORD /\ v.v # NOT_SPECIFIED

\* The text fields of the event with the prefixes of their lines.
TextFields ==
  { <<eventData.event_title, SUMMARY_PREFIX>>, <<eventData.location, LOCATION_PREFIX>>,
    <<eventData.description, DESCRIPTION_PREFIX>> }

\* A control character: C0 or DEL.
IsControl(c) == c < 32 \/ c = 127

\* The escaping the claim describes: a CRLF pair or a lone LF becomes
\* backslash-n, a comma becomes backslash-comma.
RECURSIVE ClaimedEscape(_)
ClaimedEscape(s) ==
  IF s = <<>> THEN <<>>
  ELSE IF Len(s) >= 2 /\ s[1] = 13 /\ s[2] = 10
  THEN <<92, 110>> \o ClaimedEscape(SubSeq(s, 3, Len(s)))
  ELSE IF s[1] = 10 THEN <<92, 110>> \o ClaimedEscape(Tail(s))
  ELSE IF s[1] = 44 THEN <<92, 44>> \o ClaimedEscape(Tail(s))
  ELSE <<s[1]>> \o ClaimedEscape(Tail(s))

\* C12 (as claimed): in the SUMMARY, LOCATION and DESCRIPTION values no
\* control character appears raw, every comma follows a backslash, and the
\* value is the field with each line break (LF, CRLF) written as backslash-n
\* and each comma as backslash-comma.
C12_FieldsEscaped ==
  Generated =>
    \A f \in TextFields :
      Emitted(f[1]) =>
        /\ \A k \in 1..Len(ValueOf(f[2])) :
             /\ ~IsControl(ValueOf(f[2])[k])
             /\ ValueOf(f[2])[k] = 44 => (k > 1 /\ ValueOf(f[2])[k - 1] = 92)
        /\ ValueOf(f[2]) = ClaimedEscape(f[1].v)

\* Reading an escaped value back: backslash-n or backslash-N is a line
\* break, a backslash before any other character stands for that character.
RECURSIVE Unescape(_)
Unescape(s) ==
  IF s = <<>> THEN <<>>
  ELSE IF s[1] = 92 /\ Len(s) >= 2
  THEN (IF s[2] \in {110, 78} THEN <<10>> ELSE <<s[2]>>) \o Unescape(SubSeq(s, 3, Len(s)))
  ELSE <<s[1]>> \o Unescape(Tail(s))

\* C13 (as claimed): unescaping the emitted SUMMARY, LOCATION or DESCRIPTION
\* value gives back the text of the field, and no other title gives the
\* same SUMMARY value.
C13_EscapingInvertible ==
  Generated =>
    /\ \A f \in TextFields : Emitted(f[1]) => Unescape(ValueOf(f[2])) = f[1].v
    /\ Emitted(eventData.event_title)
       => \A other \in Titles :
            (Emitted(other) /\ formatICSValue(other) = ValueOf(SUMMARY_PREFIX))
              => other = eventData.event_title

\* "none", the glossary's placeholder word.
LOWER_NONE == <<110, 111, 110, 101>>

\* A field that stands for "no value": absent, empty, or a placeholder word.
IsSentinel(v) ==
  ~Truthy(v) \/ (v.t = "string" /\ v.v \in {NONE_WORD, NOT_SPECIFIED, LOWER_NONE})

\* C14 (as claimed): when location (description) is absent, empty, "None",
\* "Not specified" or "none" the document has no LOCATION (DESCRIPTION) line,
\* otherwise it has exactly one; and the document has no empty line.
C14_SentinelsOmitted ==
  Generated =>
    /\ \A f \in TextFields \ {<<eventData.event_title, SUMMARY_PREFIX>>} :
         Len(ValuesOf(gen.text, f[2])) = (IF IsSentinel(f[1]) THEN 0 ELSE 1)
    /\ \A j \in 1..Len(LinesOf(gen.text)) : LinesOf(gen.text)[j] # <<>>

\* v is the text s with each LF written as backslash-n and each comma as
\* backslash-comma.
RECURSIVE IsEscapeOf(_, _)
IsEscapeOf(v, s) ==
  IF s = <<>> THEN v = <<>>
  ELSE IF s[1] \in {10, 44}
  THEN /\ Len(v) >= 2 /\ v[1] = 92 /\ v[2] = (IF s[1] = 10 THEN 110 ELSE 44)
       /\ IsEscapeOf(SubSeq(v, 3, Len(v)), Tail(s))
  ELSE v # <<>> /\ v[1] = s[1] /\ IsEscapeOf(Tail(v), Tail(s))

\* The title stands for "no title": absent, empty, "None" or "Not specified".
NoTitle == ~Emitted(eventData.event_title)

\* C15 (as claimed): every document returned has one SUMMARY line with a
\* non-empty value: "Calendar Event" when the title is absent, empty, "None"
\* or "Not specified", and the escaped title for every other title.
C15_SummaryIsTitle ==
  (gen.called /\ ~gen.threw) =>
    /\ Len(ValuesOf(gen.text, SUMMARY_PREFIX)) = 1
    /\ ValueOf(SUMMARY_PREFIX) # <<>>
    /\ NoTitle => ValueOf(SUMMARY_PREFIX) = CALENDAR_EVENT
    /\ ~NoTitle => IsEscapeOf(ValueOf(SUMMARY_PREFIX), eventData.event_title.v)

\* C15, amended: every document returned has one SUMMARY line with a
\* non-empty value: "Calendar Event" when the title is absent, empty, "None"
\* or "Not specified" and whenever the fallback document is returned, and
\* otherwise the title with LF and comma escaped.
C15_SummaryNonEmpty ==
  (gen.called /\ ~gen.threw) =>
    /\ Len(ValuesOf(gen.text, SUMMARY_PREFIX)) = 1
    /\ ValueOf(SUMMARY_PREFIX) # <<>>
    /\ (NoTitle \/ gen.path = "catch") => ValueOf(SUMMARY_PREFIX) = CALENDAR_EVENT
    /\ (~NoTitle /\ gen.path = "try")
       => IsEscapeOf(ValueOf(SUMMARY_PREFIX), eventData.event_title.v)

\* C15's case: a document generated for the title "Not specified".
C15_Witness ==
  /\ Generated
  /\ eventData.event_title = Str(NOT_SPECIFIED)
  /\ ValueOf(SUMMARY_PREFIX) = CALENDAR_EVENT

\* The instant `now` as formatDateForICS prints it in the runtime's zone.
CreationStamp == formatDateForICS(NewDate(now), platform.tz)

\* C17 (as claimed): the DTSTAMP line of a generated document carries the
\* instant at which generateICSFile ran, the instant its UID is made from.
C17_StampIsCreationInstant ==
  Generated =>
    /\ Len(ValuesOf(gen.text, DTSTAMP_PREFIX)) = 1
    /\ ValueOf(DTSTAMP_PREFIX) = CreationStamp
    /\ ValuesOf(gen.text, SubSeq(UID_PREFIX, 1, 4))
         = << SubSeq(UID_PREFIX, 5, Len(UID_PREFIX)) \o TimestampString(now) \o UID_SUFFIX >>

\* Instants of a second call: the instants of the model and the day after
\* the first call, half a minute on.
OtherInstants ==
  {Instants[i] : i \in 1..Len(Instants)} \cup {[min |-> now.min + 1441, ms |-> 30001]}

\* Two documents are equal line by line, apart from the UID and DTSTAMP lines.
EqualButUidAndStamp(a, b) ==
  /\ Len(a) = Len(b)
  /\ \A j \in 1..Len(a) :
       \/ a[j] = b[j]
       \/ HasPrefix(a[j], SubSeq(UID_PREFIX, 1, 4)) /\ HasPrefix(b[j], SubSeq(UID_PREFIX, 1, 4))
       \/ HasPrefix(a[j], DTSTAMP_PREFIX) /\ HasPrefix(b[j], DTSTAMP_PREFIX)

\* C18: a call of generateICSFile with the same event fields at any other
\* instant returns from the same block a document equal line by line to the
\* one returned, apart from the UID and DTSTAMP lines.
C18_Deterministic ==
  (gen.called /\ ~gen.threw) =>
    \A clock \in OtherInstants :
      LET Same(other) ==
            /\ ~other.threw /\ other.path = gen.path
            /\ EqualButUidAndStamp(LinesOf(gen.text), LinesOf(other.text))
      IN  Same(generateICSFile(eventData, clock, platform))

\* C18's case: a document generated from a start with no end fields, which a
\* call at another instant does not return character for character.
C18_Witness ==
  /\ Generated
  /\ ~Truthy(eventData.end_time)
  /\ \E clock \in OtherInstants : generateICSFile(eventData, clock, platform).text # gen.text

(***************************************************************************)
(* The UIDs of the documents the screen generates, checked under Spec.     *)
(***************************************************************************)
\* The UID values of the document a payload decodes to.
UidsOf(ics) == ValuesOf(atob(ics).text, SubSeq(UID_PREFIX, 1, 4))

\* event-<timestamp>@litecal.app
IsEventUid(v) ==
  LET head == SubSeq(UID_PREFIX, 5, Len(UID_PREFIX))
  IN  /\ HasPrefix(v, head)
      /\ Len(v) > Len(head) + Len(UID_SUFFIX)
      /\ SubSeq(v, Len(v) - Len(UID_SUFFIX) + 1, Len(v)) = UID_SUFFIX
      /\ AllDigits(SubSeq(v, Len(head) + 1, Len(v) - Len(UID_SUFFIX)))

\* generateICSFile was called in this step and its payload put in
\* currentEvent: by stopRecording for its placeholder, or for an answer
\* that is an event whose title and location can be capitalized.
GeneratedInStep ==
  \/ Len(timers') > Len(timers)
  \/ /\ Handled /\ AnswersWithEvent(result'.body)
     /\ UsableText(EventDataOf(result'.body).event_title)
     /\ UsableText(EventDataOf(result'.body).location)

\* C16 (as claimed): a document generated while currentEvent holds the
\* document of an earlier call has a UID different from that document's,
\* and each has one UID of the form event-<timestamp>@litecal.app.
C16_UidsDiffer ==
  [][ (GeneratedInStep /\ currentEvent.t = "object")
        => /\ Len(UidsOf(currentEvent.ics)) = 1 /\ IsEventUid(UidsOf(currentEvent.ics)[1])
           /\ Len(UidsOf(currentEvent'.ics)) = 1 /\ IsEventUid(UidsOf(currentEvent'.ics)[1])
           /\ UidsOf(currentEvent'.ics) # UidsOf(currentEvent.ics) ]_vars

(***************************************************************************)
(* The display functions, checked under SpecDisplay.  The weekday of a     *)
(* date is counted here from 0001-01-01, a Monday, with the month-length   *)
(* table above.                                                            *)
(***************************************************************************)
GregorianWeekdays ==
  << <<77, 111, 110, 100, 97, 121>>   \* "Monday"
   , <<84, 117, 101, 115, 100, 97, 121>>   \* "Tuesday"
   , <<87, 101, 100, 110, 101, 115, 100, 97, 121>>   \* "Wednesday"
   , <<84, 104, 117, 114, 115, 100, 97, 121>>   \* "Thursday"
   , <<70, 114, 105, 100, 97, 121>>   \* "Friday"
   , <<83, 97, 116, 117, 114, 100, 97, 121>>   \* "Saturday"
   , <<83, 117, 110, 100, 97, 121>>   \* "Sunday"
  >>

GregorianMonths ==
  << <<74, 97, 110, 117, 97, 114, 121>>   \* "January"
   , <<70, 101, 98, 114, 117, 97, 114, 121>>   \* "February"
   , <<77, 97, 114, 99, 104>>   \* "March"
   , <<65, 112, 114, 105, 108>>   \* "April"
   , <<77, 97, 121>>   \* "May"
   , <<74, 117, 110, 101>>   \* "June"
   , <<74, 117, 108, 121>>   \* "July"
   , <<65, 117, 103, 117, 115, 116>>   \* "August"
   , <<83, 101, 112, 116, 101, 109, 98, 101, 114>>   \* "September"
   , <<79, 99, 116, 111, 98, 101, 114>>   \* "October"
   , <<78, 111, 118, 101, 109, 98, 101, 114>>   \* "November"
   , <<68, 101, 99, 101, 109, 98, 101, 114>>   \* "December"
  >>

\* The days of year y before its month m.
RECURSIVE DaysBeforeMonth(_, _)
DaysBeforeMonth(y, m) ==
  IF m = 1 THEN 0 ELSE DaysBeforeMonth(y, m - 1) + DaysInMonth(y, m - 1)

\* The days from 0001-01-01 to (y, m, d).
DaysSinceYearOne(y, m, d) ==
  365 * (y - 1) + (y - 1) \div 4 - (y - 1) \div 100 + (y - 1) \div 400
    + DaysBeforeMonth(y, m) + d - 1

\* A day of the Gregorian calendar, in any year from 1 on.
IsGregorianDate(v) ==
  /\ InRangeDate(v)
  /\ Components(v, 45).n[1] >= 1
  /\ Components(v, 45).n[3] <= DaysInMonth(Components(v, 45).n[1], Components(v, 45).n[2])

\* "<Weekday>, <MonthName> <Day>, <Year>" of a date.
DateText(y, m, d) ==
  GregorianWeekdays[(DaysSinceYearOne(y, m, d) % 7) + 1] \o <<44, 32>> \o GregorianMonths[m]
    \o <<32>> \o NatToString(d) \o <<44, 32>> \o NatToString(y)

FormattedDate == call.fn = "formatDate" /\ ret.returned

\* C19: for every date string that names a day of the Gregorian calendar,
\* formatDate returns "<Weekday>, <MonthName> <Day>, <Year>" with the true
\* weekday of that day; 2024-03-10 gives "Sunday, March 10, 2024".
C19_WeekdayAndDateString ==
  /\ (FormattedDate /\ IsGregorianDate(call.arg))
     => ret.v = Str(DateText(Components(call.arg, 45).n[1], Components(call.arg, 45).n[2],
                             Components(call.arg, 45).n[3]))
  /\ (FormattedDate /\ call.arg = Str(<<50, 48, 50, 52, 45, 48, 51, 45, 49, 48>>))
     => ret.v = Str(<<83, 117, 110, 100, 97, 121, 44, 32, 77, 97, 114, 99, 104, 32, 49, 48, 44, 32, 50, 48, 50, 52>>)

\* C19's case: the leap day of a century year, in February, which the
\* congruence counts as month 14 of the year before.
C19_Witness ==
  /\ FormattedDate
  /\ call.arg = Str(<<50, 48, 48, 48, 45, 48, 50, 45, 50, 57>>)   \* "2000-02-29"
  /\ ret.v = Str(<<84, 117, 101, 115, 100, 97, 121, 44, 32, 70, 101, 98, 114, 117, 97, 114, 121, 32, 50, 57, 44, 32, 50, 48, 48, 48>>)   \* "Tuesday, February 29, 2000"

\* The minor words of the title-casing rule.
MinorWordSet ==
  { <<97>>, <<97, 110>>, <<116, 104, 101>>, <<97, 110, 100>>, <<98, 117, 116>>, <<111, 114>>, <<102, 111, 114>>, <<110, 111, 114>>, <<111, 110>>, <<97, 116>>, <<116, 111>>, <<102, 114, 111, 109>>, <<98, 121>>, <<105, 110>>, <<111, 102>> }

LowerLetter(c) == IF c \in 65..90 THEN c + 32 ELSE c
UpperLetter(c) == IF c \in 97..122 THEN c - 32 ELSE c

\* A phrase: words of letters with one space between them.
IsPhrase(v) ==
  /\ Present(v)
  /\ v.v[1] # 32 /\ v.v[Len(v.v)] # 32
  /\ \A k \in 1..(Len(v.v) - 1) : ~(v.v[k] = 32 /\ v.v[k + 1] = 32)

\* Where the word around position k of s begins and ends.
WordStart(s, k) ==
  CHOOSE j \in 1..k : (j = 1 \/ s[j - 1] = 32) /\ \A i \in j..k : s[i] # 32
WordEnd(s, k) ==
  CHOOSE j \in k..Len(s) : (j = Len(s) \/ s[j + 1] = 32) /\ \A i \in k..j : s[i] # 32

\* The word around position k is a minor word that is neither the first nor
\* the last word of s.
MinorInside(s, k) ==
  /\ WordStart(s, k) > 1 /\ WordEnd(s, k) < Len(s)
  /\ [i \in 1..(WordEnd(s, k) - WordStart(s, k) + 1) |->
        LowerLetter(s[WordStart(s, k) + i - 1])] \in MinorWordSet

\* The phrase in title case, letter by letter.
TitleCase(s) ==
  [k \in 1..Len(s) |->
     IF s[k] = 32 THEN 32
     ELSE IF k = WordStart(s, k) /\ ~MinorInside(s, k) THEN UpperLetter(s[k])
     ELSE LowerLetter(s[k])]

CapitalizedWords == call.fn = "capitalizeWords" /\ ret.returned

\* C20: for every phrase capitalizeWords returns the phrase with the first
\* letter of each word in upper case and its other letters in lower case,
\* except that a minor word that is neither the first nor the last word is
\* all in lower case; "a trip to the lake" gives "A Trip to the Lake".
C20_TitleCasing ==
  /\ (CapitalizedWords /\ IsPhrase(call.arg))
     => (~ret.threw /\ ret.v = Str(TitleCase(call.arg.v)))
  /\ (CapitalizedWords /\ call.arg = Str(<<97, 32, 116, 114, 105, 112, 32, 116, 111, 32, 116, 104, 101, 32, 108, 97, 107, 101>>))
     => ret.v = Str(<<65, 32, 84, 114, 105, 112, 32, 116, 111, 32, 116, 104, 101, 32, 76, 97, 107, 101>>)

\* C20's case: a phrase with a minor word in upper case as its first, its
\* middle and its last word.
C20_Witness ==
  /\ CapitalizedWords
  /\ call.arg = Str(<<84, 72, 69, 32, 84, 72, 69, 32, 84, 72, 69>>)   \* "THE THE THE"
  /\ ret.v = Str(<<84, 104, 101, 32, 116, 104, 101, 32, 84, 104, 101>>)   \* "The the The"

\* The location as the title-casing rule gives it: each comma-delimited
\* component in title case, the components joined by ", ".
ComponentsInTitleCase(s) ==
  LET parts == split(s, 44)
  IN  Join([k \in 1..Len(parts) |-> TitleCase(trim(parts[k]))], <<44, 32>>)

LocationShown == call.fn = "formatLocation" /\ ret.returned

\* C21: the location shown for an event of the API is the location with
\* each comma-delimited component in title case: a minor word is in lower
\* case except as the first or the last word of its component, over the same
\* minor-word set as for titles.
C21_LocationCasing ==
  (LocationShown /\ Present(call.arg))
    => (~ret.threw /\ ret.v = Str(ComponentsInTitleCase(call.arg.v)))

Exported == call.fn = "handleExportICS" /\ ret.returned

\* C23: for every title the file name handleExportICS suggests is the title
\* with each character outside a-z, A-Z, 0-9 replaced by '_' -- as long as
\* the title, its letters and digits in place -- followed by ".ics"; before
\* the extension it holds letters, digits and '_' only.
C23_ExportFileName ==
  (Exported /\ call.arg.eventData.event_title.t = "string" /\ atob(call.arg.icsFile).ok)
    => LET title == call.arg.eventData.event_title.v
           name == ret.v.fileName.v
       IN  /\ ret.v.fileName.t = "string"
           /\ Len(name) = Len(title) + 4
           /\ SubSeq(name, Len(title) + 1, Len(name)) = <<46, 105, 99, 115>>
           /\ \A k \in 1..Len(title) :
                /\ name[k] \in (48..57) \cup (65..90) \cup (97..122) \cup {95}
                /\ (title[k] \in (48..57) \cup (65..90) \cup (97..122)) => name[k] = title[k]
                /\ (title[k] \notin (48..57) \cup (65..90) \cup (97..122)) => name[k] = 95

\* C23's case: a title with path separators, dots and a space.
C23_Witness ==
  /\ Exported
  /\ call.arg.eventData.event_title = Str(<<46, 46, 47, 81, 51, 32, 112, 108, 97, 110, 46, 118, 50>>)   \* "../Q3 plan.v2"
  /\ ret.v.fileName = Str(<<95, 95, 95, 81, 51, 95, 112, 108, 97, 110, 95, 118, 50, 46, 105, 99, 115>>)   \* "___Q3_plan_v2.ics"

\* createEventAsync was called: the details it was given and the document
\* generateICSFile returns for the same eventData.
AddedToCalendar == calendar.created # <<>>

\* A text field is passed as the document has it: absent when the document
\* has no such line, else the text the line's value is the escape of.
SameText(passed, values) ==
  IF values = <<>> THEN ~Truthy(passed)
  ELSE passed.t = "string" /\ IsEscapeOf(values[1], passed.v)

\* A Date is the instant the document has in the line that starts with pre.
SameInstant(date, tz, values) ==
  Len(values) = 1 /\ formatDateForICS(date, tz) = values[1]

\* C22: the title, start, end, location and notes handleAddToCalendar
\* passes to the device calendar are the values generateICSFile puts in
\* SUMMARY, DTSTART, DTEND, LOCATION and DESCRIPTION for the same eventData
\* (an empty title is "Calendar Event", a sentinel location or description
\* is absent, in both), with one alarm 10 minutes before the start.
C22_BridgeAgreesWithDocument ==
  AddedToCalendar
    => LET Agree(details, text) ==
             /\ SameText(details.title, ValuesOf(text, SUMMARY_PREFIX))
             /\ SameInstant(details.startDate, platform.tz, ValuesOf(text, DTSTART_PREFIX))
             /\ SameInstant(details.endDate, platform.tz, ValuesOf(text, DTEND_PREFIX))
             /\ SameText(details.location, ValuesOf(text, LOCATION_PREFIX))
             /\ SameText(details.notes, ValuesOf(text, DESCRIPTION_PREFIX))
             /\ details.alarms = <<[relativeOffset |-> -10]>>
       IN  Agree(calendar.created[1].details,
                 generateICSFile(eventData, now, platform).text)

SUCCESS_ALERT == "Event added to your calendar"

\* The calendars of the list that are primary and allow modifications.
PrimaryModifiable(calendars) ==
  {k \in 1..Len(calendars) : calendars[k].isPrimary /\ calendars[k].allowsModifications}

\* C28: createEventAsync is called only after the permission was answered
\* 'granted' and a calendar list that is not empty was answered, once, on
\* the first primary calendar that allows modifications, else on the first
\* calendar; it is never called when the permission is not 'granted' or the
\* list is empty; the success alert is shown only after createEventAsync
\* answered an identifier.
C28_CreatedAfterPermissionAndCalendar ==
  /\ AddedToCalendar
       => /\ calendar.status = "granted"
          /\ calendar.asked /\ calendar.calendars # <<>>
          /\ Len(calendar.created) = 1
          /\ LET cs == calendar.calendars
                 pm == PrimaryModifiable(cs)
             IN  \E k \in 1..Len(cs) :
                   /\ calendar.created[1].calendarId = cs[k].id
                   /\ IF pm # {} THEN k \in pm /\ \A j \in pm : k <= j ELSE k = 1
  /\ (calendar.status \notin {"", "granted"} \/ (calendar.asked /\ calendar.calendars = <<>>))
       => (~AddedToCalendar /\ calendar.pc = "done")
  /\ (\E i \in 1..Len(calendar.alerts) : calendar.alerts[i] = SUCCESS_ALERT)
       => (AddedToCalendar /\ calendar.eventId # "" /\ calendar.pc = "done")

\* C28's case: the event was created on the primary calendar, the second of
\* the list, and the success alert shown.
C28_Witness ==
  /\ calendar.pc = "done"
  /\ calendar.alerts = <<SUCCESS_ALERT>>
  /\ Len(calendar.calendars) = 2
  /\ calendar.created[1].calendarId = "2"

\* A step of stopRecording that read the recording: it queues the callback.
RecordingStopped == Len(timers') = Len(timers) + 1

\* Minutes into the day of a time written HH:MM.
MinuteOfDay(v) ==
  LET parts == ParseParts(v.v, 58) IN parts[1].n * 60 + parts[2].n

\* C24: the placeholder event stopRecording creates starts on the current
\* day at the current hour and ends an hour later, not past the end of the
\* day, and its end is strictly later than its start for every current hour,
\* the hour from 23:00 to 23:59 included.
C24_PlaceholderEndsAfterStart ==
  [][RecordingStopped
       => LET today == LocalFields(NewDate(now), platform.tz)
              data == currentEvent'.data
          IN  /\ data.start_date = Str(DateString(today.year, today.month, today.day))
              /\ data.start_time = Str(TwoDigits(today.hours) \o <<58, 48, 48>>)
              /\ ~Truthy(data.end_date)
              /\ MinuteOfDay(data.end_time) <= 23 * 60 + 59
              /\ today.hours < 23
                   => MinuteOfDay(data.end_time) = MinuteOfDay(data.start_time) + 60
              /\ MinuteOfDay(data.end_time) > MinuteOfDay(data.start_time)]_vars

\* The instants of the run so far: the clock ticks by whole minutes.
InstantsSoFar == {[min |-> m, ms |-> now.ms] : m \in (now.min - MaxTicks)..now.min}

\* C25: in every reachable state of the screen with a preview,
\* currentEvent.ics is the payload generateICSFile returns for
\* currentEvent.data as stored, title and location capitalized, at an instant
\* of the run: no sequence of recordings, messages and answers leaves a
\* preview whose data and document come from different events.
C25_PreviewDocumentIsOfItsData ==
  currentEvent.t # "null"
    => \E clock \in InstantsSoFar :
         LET Same(icsFile) == ~icsFile.threw /\ icsFile.payload = currentEvent.ics
         IN  Same(generateICSFile(currentEvent.data, clock, platform))

\* C25's case: the event of an answer is previewed with its title
\* capitalized, every request sent and answered.
C25_Witness ==
  /\ currentEvent.t # "null"
  /\ result.id > 0
  /\ result.body.event_data.event_title = Str(<<116, 101, 97, 109, 32, 115, 121, 110, 99>>)   \* "team sync"
  /\ currentEvent.data.event_title = Str(<<84, 101, 97, 109, 32, 83, 121, 110, 99>>)   \* "Team Sync"
  /\ timers = <<>> /\ pending = {} /\ sent = MaxSends

\* The call answered in this step.
Answered == pending \ pending'

\* The deferred handleSendMessage ran in this step and sent a voice message.
DeferredVoiceSend ==
  /\ Len(timers') < Len(timers)
  /\ \E q \in pending' \ pending : q.isVoiceMessage

\* C26: the placeholder preview set by stopRecording is still displayed
\* after the deferred handleSendMessage has run, and after the API has
\* answered a voice message with no event: currentEvent is not reset on that
\* path.
C26_PlaceholderKept ==
  [][ /\ DeferredVoiceSend => currentEvent' = currentEvent
      /\ \A q \in Answered :
           (Handled /\ q.isVoiceMessage /\ ~IsEvent(result'.body) /\ currentEvent.t # "null")
             => currentEvent' = currentEvent ]_vars

\* The answer is an event that needs clarification, by the flag at the top
\* level or by the one under calendar_event.
NeedsClarification(body) ==
  /\ body.is_event \/ (body.calendar_event.t = "object" /\ body.calendar_event.is_event)
  /\ \/ body.requires_clarification
     \/ body.calendar_event.t = "object" /\ body.calendar_event.requires_clarification

\* The preview is the placeholder of a recording stopped in this run.
IsPlaceholder(event) ==
  /\ event.t = "object"
  /\ \E clock \in InstantsSoFar : event.data = tempEventData(clock, platform.tz)

\* C27 (as claimed): an answer that is an event needing clarification sets
\* no preview from its event_data: after a text message currentEvent is null,
\* after a voice message it is the placeholder, unchanged.
C27_ClarificationAfterTextIsNull ==
  [][ (Handled /\ NeedsClarification(result'.body))
        => \A q \in Answered :
             IF q.isVoiceMessage
             THEN currentEvent' = currentEvent /\ IsPlaceholder(currentEvent')
             ELSE currentEvent'.t = "null" ]_vars

\* C27 amended: such an answer leaves currentEvent as it was when the answer
\* arrived, whatever its event_data: no preview is made of it.  After a text
\* message that is null unless a preview was set while the message was
\* pending: the placeholder of a recording stopped in between, or the event
\* answered to another message.
C27_ClarificationLeavesPreview ==
  [][ (Handled /\ NeedsClarification(result'.body)) => currentEvent' = currentEvent ]_vars

\* C27's case: the answer under calendar_event that needs clarification
\* arrived for a text message while the callback of a recording stopped in
\* between waits; the placeholder is displayed.
C27_Witness ==
  /\ result.id > 0
  /\ NeedsClarification(result.body) /\ ~result.body.requires_clarification
  /\ pending = {} /\ timers # <<>>
  /\ IsPlaceholder(currentEvent)

(***************************************************************************)
(* EncryptionService: round trip and key changes.                          *)
(***************************************************************************)
\* decrypt or decryptMessage has returned for a value encrypt did encrypt.
DecryptedACipher ==
  /\ service.out.done
  /\ ~Falsy(service.slot.data)

\* The cipher text encrypt or encryptMessage returned.
CipherText ==
  IF service.slot.fn = "encrypt" THEN service.slot.encrypted
  ELSE service.slot.encrypted.encrypted

\* getKey() gave the same key to the encryption and to the decryption.
KeyUnchanged == CipherText.key = service.out.key

\* C29: with the key unchanged, decrypt(encrypt(x)) is x for every truthy
\* value x, texts that are JSON themselves included, and
\* decryptMessage(encryptMessage(m)) is m.
C29_RoundTrip ==
  (DecryptedACipher /\ KeyUnchanged) => service.out.v = service.slot.data

\* The value comes back from decrypt when the key is the one of encrypt.
SurvivesRoundTrip(data) ==
  decrypt(encrypt(data, DEFAULT_KEY), DEFAULT_KEY, Null) = data

\* C30: whatever the order of initialize, encrypt and decrypt, a value that
\* survives the round trip under one key and was encrypted by the service
\* is decrypted by it to the original value.
C30_DecryptsWhatItEncrypted ==
  (DecryptedACipher /\ SurvivesRoundTrip(service.slot.data))
    => service.out.v = service.slot.data

====
